---------------------------- MODULE Spec2Model ----------------------------
(***************************************************************************)
(* The emulated RTT of the ESP8266 port: the hardware independent core     *)
(* (rtt_counter, _rtt_offset, _rtt_update_hw_alarm, _rtt_isr), the FRC2    *)
(* backend (rtt_hw_frc.c) and the system-time backend (xtimer based).      *)
(*                                                                         *)
(* Widths are scaled: a uint32_t is an integer modulo W = 2^RttBits.  The  *)
(* ratio FRC_FREQUENCY / 1 MHz = 5/16 of the FRC2 backend is kept, so that *)
(* the truncating conversions FRC_US_TO_COUNTER / FRC_COUNTER_TO_US round  *)
(* as they do in the code and FRC_OVERFLOW is W * 5 / 16 exactly.          *)
(***************************************************************************)
EXTENDS Integers, Sequences, FiniteSets, TLC

RttBits == 5
MaxLatency == 1

MaxSaves == 2

MaxAwake == 1

W == 2 ^ RttBits

FRC_FREQUENCY == 312500
RTT_FREQUENCY == 1000000
USEC_PER_SEC == 1000000

NULL == "NULL"
RTT_ISR == "_rtt_isr"
ESP_PM_MODEM_SLEEP == "modem_sleep"
ESP_PM_LIGHT_SLEEP == "light_sleep"
ESP_PM_DEEP_SLEEP == "deep_sleep"
ESP_SLEEP_WAKEUP_TIMER == "timer"

u32(x) == x % W

(* ---------------- conversions (macros of the two backends) ------------- *)

FRC_COUNTER_TO_US(cnt) == u32((cnt * USEC_PER_SEC) \div FRC_FREQUENCY)

FRC_US_TO_COUNTER(us) == u32((us * FRC_FREQUENCY) \div USEC_PER_SEC)

FRC_OVERFLOW == FRC_US_TO_COUNTER(W)

SYS_US_TO_COUNT(us) == u32((us * RTT_FREQUENCY) \div USEC_PER_SEC)

SYS_COUNT_TO_US(cnt) == u32((cnt * USEC_PER_SEC) \div RTT_FREQUENCY)

(* periph/rtt.h: the largest value of the counter, all ones in its width.  *)
RTT_MAX_VALUE == W - 1

(* periph/rtt.h: ticks of the RTT to microseconds, at RTT_FREQUENCY.       *)
RTT_TICKS_TO_US(ticks) == u32((ticks * USEC_PER_SEC) \div RTT_FREQUENCY)

(* ------------------------------- state --------------------------------- *)

VARIABLES
    backend,            \* the driver _rtt_hw points to: "frc" or "sys"
    rtt_counter,        \* static rtt_counter_t rtt_counter
    rtt_offset,         \* static uint32_t RTC_BSS_ATTR _rtt_offset
    frc2,               \* FRC2: count, alarm, interrupt status, ctrl.enable, and
                        \* its bit in DPORT.INT_ENABLE (ien)
    frc_alarm,          \* static _frc_alarm_t _frc_alarm
    sys_time,           \* system_get_time()
    sys_counter_offset, \* static uint32_t _sys_counter_offset
    sys_timer,          \* xtimer_t _sys_timer and its place in the timer list
    rtc,                \* RTC.COUNTER
    rtc_counter_saved,  \* _rtc_counter_saved (retained)
    hw_counter_saved,   \* _frc_counter_saved / _sys_counter_saved (retained)
    late,               \* ticks elapsed since the pending interrupt was raised
    act,                \* the operation that made the last step
    calls,              \* the handlers and user callbacks that step ran, in order
    track,              \* an rtt_set_alarm(v, cb, arg) made at counter c < v is in force
    reached,            \* the virtual counter has reached that v since
    nfired,             \* alarm callbacks invoked since that rtt_set_alarm (capped)
    early,              \* one of them was invoked before the counter reached v
    cleared,            \* rtt_clear_alarm was called and no rtt_set_alarm since
    ovfbal,             \* overflow callbacks invoked minus wraps, since the last API call
    behind,             \* the registered alarm was set at or behind the counter, overflow callback present
    raised,             \* the armed event the last API call cancelled while its interrupt was pending
    incycle,            \* rtt_save_counter was called and rtt_restore_counter not yet
    awake,              \* ticks of the backend clock inside the current cycle
    presave,            \* what rtt_get_counter() returned when rtt_save_counter was called
    pm,                 \* the last power management hook: what it was given and what it returned
    saves,              \* rtt_save_counter calls since the last rtt_restore_counter (capped)
    twin,               \* both backends driven side by side: the target of the last
                        \* set_alarm, the callbacks each has invoked since, and the
                        \* microseconds for which these counts have differed
    pc,                 \* where the thread stands inside rtt_set_alarm, "idle" outside of it
    op                  \* the arguments of the rtt_set_alarm call in progress

hwvars == <<backend, rtt_counter, rtt_offset, frc2, frc_alarm, sys_time,
            sys_counter_offset, sys_timer, rtc, rtc_counter_saved,
            hw_counter_saved, late>>

ghostvars == <<act, calls, track, reached, nfired, early, cleared, ovfbal, behind,
               raised>>

irqvars == <<pc, op>>

pmvars == <<incycle, awake, presave, pm>>

vars == <<hwvars, ghostvars, irqvars, pmvars, saves, twin>>

(* The program state as one record, so that the C functions are operators  *)
(* from state to state and compose as the calls do.  out collects the user *)
(* callbacks invoked by the call chain, ret is the value the call returns, *)
(* sv counts the calls of rtt_save_counter not yet followed by a restore.  *)
Cur == [be |-> backend, rc |-> rtt_counter, off |-> rtt_offset, f2 |-> frc2,
        fa |-> frc_alarm, time |-> sys_time, soff |-> sys_counter_offset,
        tm |-> sys_timer, rtc |-> rtc, rtcsv |-> rtc_counter_saved,
        hwsv |-> hw_counter_saved, out |-> << >>, ret |-> 0, sv |-> saves,
        tw |-> twin]

(* ------------------------------ RTC bridge ----------------------------- *)

(* The SDK's conversion of RTC cycles to microseconds with the calibration *)
(* value pm_rtc_clock_cali_proc() returns, here whole microseconds per RTC *)
(* cycle.                                                                  *)
rtc_clk_to_us(rtc_cycles, period) == u32(rtc_cycles * period)

CaliValues == {1, 2}

(* ----------------------------- FRC2 backend ---------------------------- *)

frc_get_counter(s) == FRC_COUNTER_TO_US(s.f2.count)

(* Faulty variant of _update_alarm: a raw alarm value equal to the count    *)
(* is taken as ahead of it.                                                *)
update_alarm_at_count(s, counter) ==
    IF s.fa.alarm_cb # NULL /\ s.fa.alarm_set >= counter
    THEN [s EXCEPT !.fa.active = s.fa.alarm_set, !.f2.alarm = s.fa.alarm_set]
    ELSE [s EXCEPT !.fa.active = 0, !.f2.alarm = FRC_OVERFLOW]

update_alarm(s, counter) ==
    IF s.fa.alarm_cb # NULL /\ s.fa.alarm_set > counter
    THEN [s EXCEPT !.fa.active = s.fa.alarm_set, !.f2.alarm = s.fa.alarm_set]
    ELSE [s EXCEPT !.fa.active = 0, !.f2.alarm = FRC_OVERFLOW]

frc_set_alarm(s, alarm_us, cb, arg) ==
    LET frc_counter == s.f2.count
        s1 == [s EXCEPT !.fa.alarm_set = FRC_US_TO_COUNTER(alarm_us) % FRC_OVERFLOW,
                        !.fa.alarm_cb = cb,
                        !.fa.alarm_arg = arg]
    IN  update_alarm(s1, frc_counter)

frc_clear_alarm(s) ==
    [s EXCEPT !.fa.alarm_set = 0, !.fa.alarm_cb = NULL, !.fa.alarm_arg = NULL]

(* frc2.load = value: the count register takes the value; as when it      *)
(* counts, meeting the alarm register raises the interrupt.                *)
frc_load(s, value) ==
    [s EXCEPT !.f2.count = value, !.f2.intr = @ \/ (value = s.f2.alarm)]

frc_save_counter(s) ==
    [s EXCEPT !.hwsv = s.f2.count, !.rtcsv = s.rtc]

(* Faulty variants of _frc_restore_counter: one that loads the elapsed     *)
(* time alone, one that resumes from the running count unless in_init.     *)
frc_restore_counter_delta_only(s, in_init, cali) ==
    LET rtc_diff == u32(s.rtc - s.rtcsv)
        diff_us == rtc_clk_to_us(rtc_diff, cali)
        frc_diff == FRC_US_TO_COUNTER(diff_us)
    IN  frc_load(s, frc_diff % FRC_OVERFLOW)

frc_restore_counter_resume(s, in_init, cali) ==
    LET rtc_diff == u32(s.rtc - s.rtcsv)
        diff_us == rtc_clk_to_us(rtc_diff, cali)
        frc_diff == FRC_US_TO_COUNTER(diff_us)
        base == IF in_init THEN s.hwsv ELSE s.f2.count
    IN  frc_load(s, u32(base + frc_diff) % FRC_OVERFLOW)

(* Faulty variant of _frc_restore_counter: the sum is loaded as it is.      *)
frc_restore_counter_no_wrap(s, in_init, cali) ==
    LET rtc_diff == u32(s.rtc - s.rtcsv)
        diff_us == rtc_clk_to_us(rtc_diff, cali)
        frc_diff == FRC_US_TO_COUNTER(diff_us)
    IN  frc_load(s, u32(s.hwsv + frc_diff))

frc_restore_counter(s, in_init, cali) ==
    LET rtc_counter == s.rtc
        rtc_diff == u32(rtc_counter - s.rtcsv)
        diff_us == rtc_clk_to_us(rtc_diff, cali)
        frc_diff == FRC_US_TO_COUNTER(diff_us)
    IN  frc_load(s, u32(s.hwsv + frc_diff) % FRC_OVERFLOW)

(* ------------------------- system-time backend ------------------------- *)

sys_get_counter(s) == SYS_US_TO_COUNT(u32(s.time + s.soff))

(* xtimer_set(&_sys_timer, offset): a one-shot timer offset microseconds   *)
(* from now; an offset of 0 is due at once.                                *)
xtimer_set(s, offset) == [s EXCEPT !.tm.armed = TRUE, !.tm.left = offset]

xtimer_remove(s) == [s EXCEPT !.tm.armed = FALSE, !.tm.left = 0]

(* Faulty variant of _sys_set_alarm: a target behind the counter is due at *)
(* once.                                                                   *)
sys_set_alarm_clamped(s, alarm, cb, arg) ==
    LET sys_count == sys_get_counter(s)
        rtt_diff == IF alarm < sys_count THEN 0 ELSE alarm - sys_count
        s1 == [s EXCEPT !.tm.callback = cb, !.tm.arg = arg]
    IN  xtimer_set(s1, SYS_COUNT_TO_US(rtt_diff))

(* assert(alarm <= RTT_MAX_VALUE) comes first: a failure is recorded among  *)
(* the calls of the step.                                                  *)
sys_set_alarm(s, alarm, cb, arg) ==
    LET s0 == IF alarm <= RTT_MAX_VALUE THEN s
              ELSE [s EXCEPT !.out = Append(@, [kind |-> "assert", cb |-> NULL,
                                                arg |-> NULL, alarm |-> alarm,
                                                at |-> sys_get_counter(s),
                                                rc |-> s.rc])]
        sys_count == sys_get_counter(s0)
        rtt_diff == u32(alarm - sys_count)
        s1 == [s0 EXCEPT !.tm.callback = cb, !.tm.arg = arg]
    IN  xtimer_set(s1, SYS_COUNT_TO_US(rtt_diff))

sys_clear_alarm(s) ==
    xtimer_remove([s EXCEPT !.tm.callback = NULL, !.tm.arg = NULL])

sys_save_counter(s) ==
    [s EXCEPT !.rtcsv = s.rtc, !.hwsv = u32(s.time + s.soff)]

sys_restore_counter(s, in_init, cali) ==
    LET rtc_diff == u32(s.rtc - s.rtcsv)
        o1 == u32(s.soff + rtc_clk_to_us(rtc_diff, cali))
    IN  [s EXCEPT !.soff = u32(o1 + (IF in_init THEN s.hwsv ELSE 0))]

(* --------------------------- driver dispatch --------------------------- *)

frc_poweron(s) == [s EXCEPT !.f2.enable = TRUE, !.f2.ien = TRUE]

frc_poweroff(s) == [s EXCEPT !.f2.enable = FALSE, !.f2.ien = FALSE]

sys_poweron(s) == s

sys_poweroff(s) == xtimer_remove(s)

hw_poweron(s) == IF s.be = "frc" THEN frc_poweron(s) ELSE sys_poweron(s)

hw_poweroff(s) == IF s.be = "frc" THEN frc_poweroff(s) ELSE sys_poweroff(s)

hw_get_counter(s) == IF s.be = "frc" THEN frc_get_counter(s) ELSE sys_get_counter(s)

hw_set_alarm(s, alarm_us, cb, arg) ==
    IF s.be = "frc" THEN frc_set_alarm(s, alarm_us, cb, arg)
                    ELSE sys_set_alarm(s, alarm_us, cb, arg)

hw_clear_alarm(s) == IF s.be = "frc" THEN frc_clear_alarm(s) ELSE sys_clear_alarm(s)

hw_save_counter(s) == IF s.be = "frc" THEN frc_save_counter(s) ELSE sys_save_counter(s)

hw_restore_counter(s, in_init, cali) ==
    IF s.be = "frc" THEN frc_restore_counter(s, in_init, cali)
                    ELSE sys_restore_counter(s, in_init, cali)

(* ------------------------------- the core ------------------------------ *)

(* Faulty variant of rtt_get_counter: the backend's counter as it is.      *)
rtt_get_counter_backend(s) == hw_get_counter(s)

rtt_get_counter(s) == u32(hw_get_counter(s) + s.off)

(* Faulty variant of rtt_get_alarm: the armed value, not the requested.    *)
rtt_get_alarm_armed(s) == s.rc.alarm_active

rtt_get_alarm(s) == s.rc.alarm

(* Faulty variant of _rtt_update_hw_alarm: with nothing registered the     *)
(* backend alarm is cleared but alarm_set stays as it was.                 *)
rtt_update_hw_alarm_keep_set(s) ==
    IF s.rc.alarm_cb # NULL
       /\ (s.rc.alarm > rtt_get_counter(s) \/ s.rc.overflow_cb = NULL)
    THEN hw_set_alarm([s EXCEPT !.rc.alarm_active = s.rc.alarm,
                                !.rc.alarm_set = TRUE],
                      u32(s.rc.alarm - s.off), RTT_ISR, NULL)
    ELSE IF s.rc.overflow_cb # NULL
    THEN hw_set_alarm([s EXCEPT !.rc.alarm_active = 0, !.rc.alarm_set = TRUE],
                      u32(0 - s.off), RTT_ISR, NULL)
    ELSE hw_clear_alarm(s)

(* Faulty variant of _rtt_update_hw_alarm: the backend value is computed   *)
(* in a wider type, the offset's complement added without the wrap.        *)
rtt_update_hw_alarm_wide(s) ==
    IF s.rc.alarm_cb # NULL
       /\ (s.rc.alarm > rtt_get_counter(s) \/ s.rc.overflow_cb = NULL)
    THEN hw_set_alarm([s EXCEPT !.rc.alarm_active = s.rc.alarm,
                                !.rc.alarm_set = TRUE],
                      s.rc.alarm + (W - s.off), RTT_ISR, NULL)
    ELSE IF s.rc.overflow_cb # NULL
    THEN hw_set_alarm([s EXCEPT !.rc.alarm_active = 0, !.rc.alarm_set = TRUE],
                      W - s.off, RTT_ISR, NULL)
    ELSE hw_clear_alarm([s EXCEPT !.rc.alarm_set = FALSE])

(* Faulty variant of _rtt_update_hw_alarm: an alarm at the counter value   *)
(* counts as ahead of it.                                                  *)
rtt_update_hw_alarm_at_counter(s) ==
    IF s.rc.alarm_cb # NULL
       /\ (s.rc.alarm >= rtt_get_counter(s) \/ s.rc.overflow_cb = NULL)
    THEN hw_set_alarm([s EXCEPT !.rc.alarm_active = s.rc.alarm,
                                !.rc.alarm_set = TRUE],
                      u32(s.rc.alarm - s.off), RTT_ISR, NULL)
    ELSE IF s.rc.overflow_cb # NULL
    THEN hw_set_alarm([s EXCEPT !.rc.alarm_active = 0, !.rc.alarm_set = TRUE],
                      u32(0 - s.off), RTT_ISR, NULL)
    ELSE hw_clear_alarm([s EXCEPT !.rc.alarm_set = FALSE])

rtt_update_hw_alarm(s) ==
    IF s.rc.alarm_cb # NULL
       /\ (s.rc.alarm > rtt_get_counter(s) \/ s.rc.overflow_cb = NULL)
    THEN hw_set_alarm([s EXCEPT !.rc.alarm_active = s.rc.alarm,
                                !.rc.alarm_set = TRUE],
                      u32(s.rc.alarm - s.off), RTT_ISR, NULL)
    ELSE IF s.rc.overflow_cb # NULL
    THEN hw_set_alarm([s EXCEPT !.rc.alarm_active = 0, !.rc.alarm_set = TRUE],
                      u32(0 - s.off), RTT_ISR, NULL)
    ELSE hw_clear_alarm([s EXCEPT !.rc.alarm_set = FALSE])

rtt_poweron(s) == hw_poweron(s)

rtt_poweroff(s) == hw_poweroff(s)

rtt_save_counter(s) ==
    [hw_save_counter(s) EXCEPT !.sv = IF @ < MaxSaves THEN @ + 1 ELSE @]

rtt_restore_counter(s, in_init, cali) ==
    [hw_restore_counter(s, in_init, cali) EXCEPT !.sv = 0]

rtt_set_overflow_cb(s, cb, arg) ==
    rtt_update_hw_alarm([s EXCEPT !.rc.overflow_cb = cb, !.rc.overflow_arg = arg])

(* Faulty variant of rtt_clear_overflow_cb: the next event is selected     *)
(* before the callback is removed.                                         *)
rtt_clear_overflow_cb_late(s) ==
    LET s1 == rtt_update_hw_alarm(s)
    IN  [s1 EXCEPT !.rc.overflow_cb = NULL, !.rc.overflow_arg = NULL]

(* Faulty variant of rtt_clear_overflow_cb: the callback stays.             *)
rtt_clear_overflow_cb_noop(s) == rtt_update_hw_alarm(s)

rtt_clear_overflow_cb(s) ==
    rtt_update_hw_alarm([s EXCEPT !.rc.overflow_cb = NULL, !.rc.overflow_arg = NULL])

(* Faulty variant of rtt_set_counter: the offset is taken against the      *)
(* virtual counter, not the backend's.                                     *)
rtt_set_counter_virtual(s, counter) ==
    LET rtt_current == rtt_get_counter(s)
    IN  rtt_update_hw_alarm([s EXCEPT !.off = u32(counter - rtt_current)])

(* Faulty variant of rtt_set_counter: the offset changes and the armed     *)
(* event stays as it was selected before.                                  *)
rtt_set_counter_no_select(s, counter) ==
    LET rtt_current == hw_get_counter(s)
    IN  [s EXCEPT !.off = u32(counter - rtt_current)]

rtt_set_counter(s, counter) ==
    LET rtt_current == hw_get_counter(s)
    IN  rtt_update_hw_alarm([s EXCEPT !.off = u32(counter - rtt_current)])

rtt_set_alarm(s, alarm, cb, arg) ==
    rtt_update_hw_alarm([s EXCEPT !.rc.alarm = alarm,
                                  !.rc.alarm_cb = cb,
                                  !.rc.alarm_arg = arg])

(* Faulty variants of rtt_clear_alarm: one that leaves the alarm slot as   *)
(* it is, one that detaches the callback but keeps the alarm value.        *)
rtt_clear_alarm_noop(s) == rtt_update_hw_alarm(s)

rtt_clear_alarm_keep_value(s) ==
    rtt_update_hw_alarm([s EXCEPT !.rc.alarm_cb = NULL, !.rc.alarm_arg = NULL])

rtt_clear_alarm(s) ==
    rtt_update_hw_alarm([s EXCEPT !.rc.alarm = 0,
                                  !.rc.alarm_cb = NULL,
                                  !.rc.alarm_arg = NULL])

(* The callbacks of the application.  cb_rearm sets the next alarm from    *)
(* inside the interrupt: rtt_set_alarm(v2, cb2, arg2), with v2 chosen by   *)
(* the argument it was registered with.  The other callbacks return        *)
(* without calling the RTT.                                                *)
RearmValue == [to2 |-> 2, to9 |-> 9]

user_cb(s, cb, arg) ==
    IF cb = "cb_rearm" THEN rtt_set_alarm(s, RearmValue[arg], "cb2", "arg2") ELSE s

(* A handler or a user callback runs: it is recorded with the value        *)
(* rtt_get_counter() has at that moment, the alarm value the interrupt was *)
(* taken for (alarm_active for the core, active for the FRC backend) and   *)
(* rtt_counter as the callee finds it.                                     *)
invoke(s, kind, cb, arg, alarm) ==
    [s EXCEPT !.out = Append(@, [kind |-> kind, cb |-> cb, arg |-> arg,
                                 alarm |-> alarm, at |-> rtt_get_counter(s),
                                 rc |-> s.rc])]

(* Faulty variant of _rtt_isr: the alarm callback runs whatever value the   *)
(* interrupt was taken for.                                                *)
rtt_isr_any_value(s) ==
    LET alarm == s.rc.alarm_active
        s0 == invoke(s, "_rtt_isr", NULL, NULL, alarm)
        s1 == IF s0.rc.wakeup THEN [s0 EXCEPT !.rc.wakeup = FALSE] ELSE s0
        s2 == IF s1.rc.alarm_cb # NULL
              THEN invoke(rtt_clear_alarm(s1), "alarm",
                          s1.rc.alarm_cb, s1.rc.alarm_arg, alarm)
              ELSE s1
        s3 == IF alarm = 0
              THEN LET s4 == rtt_update_hw_alarm(s2)
                   IN  IF s4.rc.overflow_cb # NULL
                       THEN invoke(s4, "overflow", s4.rc.overflow_cb,
                                   s4.rc.overflow_arg, alarm)
                       ELSE s4
              ELSE s2
    IN  s3

(* Faulty variant of _rtt_isr: the alarm is cleared after its callback has *)
(* returned.                                                               *)
rtt_isr_clear_after(s) ==
    LET alarm == s.rc.alarm_active
        s0 == invoke(s, "_rtt_isr", NULL, NULL, alarm)
        s1 == IF s0.rc.wakeup THEN [s0 EXCEPT !.rc.wakeup = FALSE] ELSE s0
        s2 == IF alarm = s1.rc.alarm /\ s1.rc.alarm_cb # NULL
              THEN rtt_clear_alarm(user_cb(invoke(s1, "alarm", s1.rc.alarm_cb,
                                                  s1.rc.alarm_arg, alarm),
                                           s1.rc.alarm_cb, s1.rc.alarm_arg))
              ELSE s1
        s3 == IF alarm = 0
              THEN LET s4 == rtt_update_hw_alarm(s2)
                   IN  IF s4.rc.overflow_cb # NULL
                       THEN invoke(s4, "overflow", s4.rc.overflow_cb,
                                   s4.rc.overflow_arg, alarm)
                       ELSE s4
              ELSE s2
    IN  s3

(* Faulty variant of _rtt_isr: one event per interrupt, the overflow path  *)
(* only when the alarm callback did not run.                               *)
rtt_isr_one_event(s) ==
    LET alarm == s.rc.alarm_active
        s0 == invoke(s, "_rtt_isr", NULL, NULL, alarm)
        s1 == IF s0.rc.wakeup THEN [s0 EXCEPT !.rc.wakeup = FALSE] ELSE s0
        isalarm == alarm = s1.rc.alarm /\ s1.rc.alarm_cb # NULL
        s2 == IF isalarm
              THEN invoke(rtt_clear_alarm(s1), "alarm",
                          s1.rc.alarm_cb, s1.rc.alarm_arg, alarm)
              ELSE s1
        s3 == IF alarm = 0 /\ ~isalarm
              THEN LET s4 == rtt_update_hw_alarm(s2)
                   IN  IF s4.rc.overflow_cb # NULL
                       THEN invoke(s4, "overflow", s4.rc.overflow_cb,
                                   s4.rc.overflow_arg, alarm)
                       ELSE s4
              ELSE s2
    IN  s3

(* Faulty variant of _rtt_isr: the overflow slot is one-shot as the alarm  *)
(* slot is, cleared before its callback is called.                         *)
rtt_isr_overflow_once(s) ==
    LET alarm == s.rc.alarm_active
        s0 == invoke(s, "_rtt_isr", NULL, NULL, alarm)
        s1 == IF s0.rc.wakeup THEN [s0 EXCEPT !.rc.wakeup = FALSE] ELSE s0
        s2 == IF alarm = s1.rc.alarm /\ s1.rc.alarm_cb # NULL
              THEN user_cb(invoke(rtt_clear_alarm(s1), "alarm",
                                  s1.rc.alarm_cb, s1.rc.alarm_arg, alarm),
                           s1.rc.alarm_cb, s1.rc.alarm_arg)
              ELSE s1
        s3 == IF alarm = 0
              THEN IF s2.rc.overflow_cb # NULL
                   THEN invoke(rtt_clear_overflow_cb(s2), "overflow",
                               s2.rc.overflow_cb, s2.rc.overflow_arg, alarm)
                   ELSE rtt_update_hw_alarm(s2)
              ELSE s2
    IN  s3

(* Faulty variant of _rtt_isr: the wake-up flag is left as it is.          *)
rtt_isr_keep_wakeup(s) ==
    LET alarm == s.rc.alarm_active
        s1 == invoke(s, "_rtt_isr", NULL, NULL, alarm)
        s2 == IF alarm = s1.rc.alarm /\ s1.rc.alarm_cb # NULL
              THEN user_cb(invoke(rtt_clear_alarm(s1), "alarm",
                                  s1.rc.alarm_cb, s1.rc.alarm_arg, alarm),
                           s1.rc.alarm_cb, s1.rc.alarm_arg)
              ELSE s1
        s3 == IF alarm = 0
              THEN LET s4 == rtt_update_hw_alarm(s2)
                   IN  IF s4.rc.overflow_cb # NULL
                       THEN invoke(s4, "overflow", s4.rc.overflow_cb,
                                   s4.rc.overflow_arg, alarm)
                       ELSE s4
              ELSE s2
    IN  s3

(* Faulty variant of _rtt_isr: the overflow path calls overflow_cb without *)
(* looking at it.                                                          *)
rtt_isr_unchecked_overflow(s) ==
    LET alarm == s.rc.alarm_active
        s0 == invoke(s, "_rtt_isr", NULL, NULL, alarm)
        s1 == IF s0.rc.wakeup THEN [s0 EXCEPT !.rc.wakeup = FALSE] ELSE s0
        s2 == IF alarm = s1.rc.alarm /\ s1.rc.alarm_cb # NULL
              THEN user_cb(invoke(rtt_clear_alarm(s1), "alarm",
                                  s1.rc.alarm_cb, s1.rc.alarm_arg, alarm),
                           s1.rc.alarm_cb, s1.rc.alarm_arg)
              ELSE s1
        s3 == IF alarm = 0
              THEN LET s4 == rtt_update_hw_alarm(s2)
                   IN  invoke(s4, "overflow", s4.rc.overflow_cb,
                              s4.rc.overflow_arg, alarm)
              ELSE s2
    IN  s3

rtt_isr(s) ==
    LET alarm == s.rc.alarm_active
        s0 == invoke(s, "_rtt_isr", NULL, NULL, alarm)
        s1 == IF s0.rc.wakeup THEN [s0 EXCEPT !.rc.wakeup = FALSE] ELSE s0
        s2 == IF alarm = s1.rc.alarm /\ s1.rc.alarm_cb # NULL
              THEN user_cb(invoke(rtt_clear_alarm(s1), "alarm",
                                  s1.rc.alarm_cb, s1.rc.alarm_arg, alarm),
                           s1.rc.alarm_cb, s1.rc.alarm_arg)
              ELSE s1
        s3 == IF alarm = 0
              THEN LET s4 == rtt_update_hw_alarm(s2)
                   IN  IF s4.rc.overflow_cb # NULL
                       THEN invoke(s4, "overflow", s4.rc.overflow_cb,
                                   s4.rc.overflow_arg, alarm)
                       ELSE s4
              ELSE s2
    IN  s3

(* The callback the backend holds: _rtt_isr when the core has set it, any  *)
(* other when the backend is driven through its interface directly.        *)
backend_cb(s, cb, arg) ==
    IF cb = RTT_ISR THEN rtt_isr(s)
    ELSE IF cb # NULL THEN invoke(s, "backend_cb", cb, arg, 0)
    ELSE s

frc_isr(s) ==
    LET counter == s.f2.count % FRC_OVERFLOW
        s0 == invoke(s, "_frc_isr", NULL, NULL, s.fa.active)
        s1 == IF s0.fa.active = 0 THEN frc_load(s0, counter) ELSE s0
        s2 == IF s1.fa.active = s1.fa.alarm_set /\ s1.fa.alarm_cb # NULL
              THEN backend_cb([s1 EXCEPT !.fa.alarm_cb = NULL, !.fa.alarm_arg = NULL],
                              s1.fa.alarm_cb, s1.fa.alarm_arg)
              ELSE s1
    IN  update_alarm(s2, counter)

(* xtimer's interrupt: the due timer leaves the list and its callback runs. *)
sys_timer_isr(s) ==
    backend_cb(xtimer_remove(s), s.tm.callback, s.tm.arg)

(* ------------------- power management hooks and boot ------------------- *)

(* Faulty variants of rtt_pm_sleep_enter: one that marks the wake-up       *)
(* whenever an event is armed, one that returns 0 for an alarm behind the  *)
(* counter.                                                                *)
rtt_pm_sleep_enter_always_wakeup(s) ==
    LET s1 == rtt_save_counter(s)
        counter == rtt_get_counter(s1)
        t_diff == RTT_TICKS_TO_US(u32(s1.rc.alarm_active - counter))
    IN  IF ~s1.rc.alarm_set
        THEN [s1 EXCEPT !.ret = 0]
        ELSE [s1 EXCEPT !.rc.wakeup = TRUE, !.ret = t_diff]

rtt_pm_sleep_enter_clamped(s) ==
    LET s1 == rtt_save_counter(s)
        counter == rtt_get_counter(s1)
        t_diff == IF s1.rc.alarm_active # 0 /\ s1.rc.alarm_active < counter
                  THEN 0
                  ELSE RTT_TICKS_TO_US(u32(s1.rc.alarm_active - counter))
    IN  IF ~s1.rc.alarm_set
        THEN [s1 EXCEPT !.ret = 0]
        ELSE [s1 EXCEPT !.rc.wakeup = (t_diff # 0), !.ret = t_diff]

rtt_pm_sleep_enter(s) ==
    LET s1 == rtt_save_counter(s)
        counter == rtt_get_counter(s1)
        t_diff == RTT_TICKS_TO_US(u32(s1.rc.alarm_active - counter))
    IN  IF ~s1.rc.alarm_set
        THEN [s1 EXCEPT !.ret = 0]
        ELSE [s1 EXCEPT !.rc.wakeup = (t_diff # 0), !.ret = t_diff]

(* Faulty variant of rtt_pm_sleep_exit: the dispatch whatever the cause.   *)
rtt_pm_sleep_exit_any_cause(s, cause, cali) ==
    rtt_isr(rtt_restore_counter(s, FALSE, cali))

rtt_pm_sleep_exit(s, cause, cali) ==
    LET s1 == rtt_restore_counter(s, FALSE, cali)
    IN  IF cause = ESP_SLEEP_WAKEUP_TIMER THEN rtt_isr(s1) ELSE s1

frc_init(s) ==
    [s EXCEPT !.f2.enable = TRUE, !.f2.alarm = FRC_OVERFLOW, !.fa.active = 0]

hw_init(s) == IF s.be = "frc" THEN frc_init(s) ELSE s

(* Faulty variant of rtt_init: the overflow slot is not cleared.           *)
rtt_init_keep_overflow(s, cali) ==
    rtt_clear_alarm(rtt_restore_counter(hw_init(s), TRUE, cali))

rtt_init(s, cali) ==
    rtt_poweron(
        rtt_clear_overflow_cb(
            rtt_clear_alarm(
                rtt_restore_counter(hw_init(s), TRUE, cali))))

(* The restart: what is not in retained memory is lost, that is all but    *)
(* _rtt_offset, _rtc_counter_saved and the saved backend counter; FRC2 and *)
(* the system time start again, the RTC counts on.                         *)
esp_restart(s) ==
    [s EXCEPT !.rc = [alarm |-> 0, alarm_cb |-> NULL, alarm_arg |-> NULL,
                      overflow_cb |-> NULL, overflow_arg |-> NULL,
                      alarm_active |-> 0, alarm_set |-> FALSE, wakeup |-> FALSE],
              !.f2 = [count |-> 0, alarm |-> FRC_OVERFLOW, intr |-> FALSE,
                      enable |-> TRUE, ien |-> TRUE],
              !.fa = [alarm_set |-> 0, alarm_cb |-> NULL, alarm_arg |-> NULL,
                      active |-> 0],
              !.time = 0,
              !.soff = 0,
              !.tm = [callback |-> NULL, arg |-> NULL, armed |-> FALSE, left |-> 0]]

pm_reboot(s) == esp_restart(rtt_save_counter(s))

(* esp_deep_sleep(t_sleep): the chip sleeps and wakes up through a         *)
(* DEEPSLEEP_RESET, which loses what a restart loses.                      *)
esp_deep_sleep(s, t_sleep) == esp_restart(s)

(* Faulty variant of pm_set: the sleep is entered without the RTT hook.    *)
pm_set_no_hook(s, mode) ==
    IF mode = ESP_PM_MODEM_SLEEP
    THEN s
    ELSE IF mode = ESP_PM_DEEP_SLEEP
    THEN esp_deep_sleep(s, 0)
    ELSE s

(* pm_set(mode) up to the point where the CPU stops: nothing for modem     *)
(* sleep, rtt_pm_sleep_enter for the others, and for deep sleep the reset  *)
(* the wake-up goes through.  What pm_set does after esp_light_sleep_start *)
(* has returned is pm_set_wakeup.                                          *)
pm_set(s, mode) ==
    IF mode = ESP_PM_MODEM_SLEEP
    THEN s
    ELSE LET s1 == rtt_pm_sleep_enter(s)
         IN  IF mode = ESP_PM_DEEP_SLEEP
             THEN esp_deep_sleep(s1, s1.ret)
             ELSE s1

pm_set_wakeup(s, wakeup_reason, cali) == rtt_pm_sleep_exit(s, wakeup_reason, cali)

(* ----------------------- hardware and environment ---------------------- *)

(* An interrupt of the active backend is raised and not yet dispatched:    *)
(* FRC2's compare match, or the xtimer whose time has come.                *)
pending(s) ==
    IF s.be = "frc" THEN s.f2.intr /\ s.f2.ien ELSE s.tm.armed /\ s.tm.left = 0

(* One tick of the running backend clock: FRC2 counts one up and raises    *)
(* its interrupt when count meets the alarm register; the system time      *)
(* advances one microsecond and the armed timer comes one nearer.          *)
hw_tick(s) ==
    IF s.be = "frc"
    THEN LET c == u32(s.f2.count + 1)
         IN  IF s.f2.enable
             THEN [s EXCEPT !.f2.count = c, !.f2.intr = @ \/ (c = s.f2.alarm)]
             ELSE s
    ELSE [s EXCEPT !.time = u32(@ + 1),
                   !.tm.left = IF s.tm.armed /\ @ > 0 THEN @ - 1 ELSE @]

(* The interrupt is taken: the backend's handler runs to its end.          *)
hw_isr(s) ==
    IF s.be = "frc" THEN frc_isr([s EXCEPT !.f2.intr = FALSE])
                    ELSE sys_timer_isr(s)

(* The step's result becomes the state; ticks is the time the step took.   *)
Commit(s, ticks) ==
    /\ rtt_counter' = s.rc
    /\ rtt_offset' = s.off
    /\ frc2' = s.f2
    /\ frc_alarm' = s.fa
    /\ sys_time' = s.time
    /\ sys_counter_offset' = s.soff
    /\ sys_timer' = s.tm
    /\ rtc' = s.rtc
    /\ rtc_counter_saved' = s.rtcsv
    /\ hw_counter_saved' = s.hwsv
    /\ calls' = s.out
    /\ saves' = s.sv
    /\ twin' = s.tw
    /\ late' = IF pending(s) /\ pending(Cur) THEN late + ticks ELSE 0
    /\ UNCHANGED backend

(* ------------------------------ observation ---------------------------- *)

Count(seq, kind) == Cardinality({i \in DOMAIN seq : seq[i].kind = kind})

Cap(n) == IF n > 3 THEN 3 ELSE IF n < -3 THEN -3 ELSE n

(* An API call on the alarm slot starts a new observation of the alarm.    *)
Fresh(tr) ==
    /\ track' = tr
    /\ reached' = FALSE
    /\ nfired' = 0
    /\ early' = FALSE

(* Re-selecting the next event keeps the observation of a registered alarm *)
(* only while its value is still ahead of the counter.                     *)
StillAhead ==
    IF track /\ ~reached /\ nfired = 0
    THEN UNCHANGED <<track, reached, nfired, early>>
    ELSE Fresh(FALSE)

(* The overflow is observed while it is the only registered event.         *)

OvfOnly(s) == s.rc.overflow_cb # NULL /\ s.rc.alarm_cb = NULL

(* ------------------------------- actions ------------------------------- *)

AlarmPairs == {<<"cb1", "arg1">>, <<NULL, "arg1">>}
AlarmValues == {0, 5, W - 1}
CounterValues == {W - 2}

NoOp == [alarm |-> 0, cb |-> NULL, arg |-> NULL]

(* No power management hook has run: op is the hook, cause the wake-up     *)
(* cause rtt_pm_sleep_exit was given, ret what rtt_pm_sleep_enter          *)
(* returned, us the microseconds of RTC time the restore folded in, idle   *)
(* whether the backend clock stood still from the save to the restore.     *)
NoHook == [op |-> "none", cause |-> "none", ret |-> 0, us |-> 0, idle |-> FALSE]

(* No alarm is under comparison: v is the target of the last set_alarm, c  *)
(* the counter value it was called at.                                     *)
NoTwin == [v |-> 0, c |-> 0, set |-> FALSE, frc |-> 0, sys |-> 0, skew |-> 0]

Init ==
    /\ backend \in {"frc", "sys"}
    /\ rtt_counter = [alarm |-> 0, alarm_cb |-> NULL, alarm_arg |-> NULL,
                      overflow_cb |-> NULL, overflow_arg |-> NULL,
                      alarm_active |-> 0, alarm_set |-> FALSE, wakeup |-> FALSE]
    /\ rtt_offset = 0
    /\ frc2 = [count |-> 0, alarm |-> FRC_OVERFLOW, intr |-> FALSE,
                      enable |-> TRUE, ien |-> TRUE]
    /\ frc_alarm = [alarm_set |-> 0, alarm_cb |-> NULL, alarm_arg |-> NULL, active |-> 0]
    /\ sys_time = 0
    /\ sys_counter_offset = 0
    /\ sys_timer = [callback |-> NULL, arg |-> NULL, armed |-> FALSE, left |-> 0]
    /\ rtc = 0
    /\ rtc_counter_saved = 0
    /\ hw_counter_saved = 0
    /\ late = 0
    /\ act = "rtt_init"
    /\ calls = << >>
    /\ track = FALSE
    /\ reached = FALSE
    /\ nfired = 0
    /\ early = FALSE
    /\ cleared = FALSE
    /\ ovfbal = 0
    /\ behind = FALSE
    /\ raised = "none"
    /\ pc = "idle"
    /\ op = NoOp
    /\ incycle = FALSE
    /\ awake = 0
    /\ presave = 0
    /\ pm = NoHook
    /\ saves = 0
    /\ twin = NoTwin

Tick ==
    /\ ~pending(Cur) \/ late < MaxLatency
    /\ incycle => awake < MaxAwake
    /\ awake' = IF incycle THEN awake + 1 ELSE 0
    /\ LET s == hw_tick(Cur)
           c0 == rtt_get_counter(Cur)
           c1 == rtt_get_counter(s)
       IN  /\ Commit(s, 1)
           /\ reached' = (reached \/ (track /\ nfired = 0
                                      /\ u32(rtt_counter.alarm - c0) > 0
                                      /\ u32(rtt_counter.alarm - c0) <= u32(c1 - c0)))
           /\ ovfbal' = IF OvfOnly(s) THEN Cap(ovfbal - (IF c1 < c0 THEN 1 ELSE 0)) ELSE 0
    /\ act' = "tick"
    /\ UNCHANGED <<track, nfired, early, cleared, behind, raised, irqvars, incycle,
                   presave, pm>>

Isr ==
    /\ pending(Cur)
    /\ LET s == hw_isr(Cur)
           n == Count(s.out, "alarm")
       IN  /\ Commit(s, 0)
           /\ nfired' = Cap(nfired + n)
           /\ early' = (early \/ (track /\ n > 0 /\ ~reached))
           /\ reached' = (reached \/ (track /\ n > 0))
           /\ ovfbal' = IF OvfOnly(Cur) /\ OvfOnly(s)
                        THEN Cap(ovfbal + Count(s.out, "overflow")) ELSE 0
    /\ act' = "isr"
    /\ UNCHANGED <<track, cleared, behind, raised, irqvars, pmvars>>

RttSetAlarm(v, cb, arg) ==
    /\ Commit(rtt_set_alarm(Cur, v, cb, arg), 0)
    /\ act' = "rtt_set_alarm"
    /\ Fresh(cb # NULL /\ rtt_get_counter(Cur) < v)
    /\ behind' = (cb # NULL /\ v <= rtt_get_counter(Cur)
                  /\ rtt_counter.overflow_cb # NULL)
    /\ cleared' = FALSE
    /\ ovfbal' = 0
    /\ raised' = "none"
    /\ UNCHANGED <<irqvars, pmvars>>

RttClearAlarm ==
    /\ Commit(rtt_clear_alarm(Cur), 0)
    /\ act' = "rtt_clear_alarm"
    /\ Fresh(FALSE)
    /\ cleared' = TRUE
    /\ ovfbal' = 0
    /\ behind' = FALSE
    /\ raised' = IF pending(Cur) /\ rtt_counter.alarm_cb # NULL /\ rtt_counter.alarm_set
                     /\ rtt_counter.alarm_active = rtt_counter.alarm
                  THEN "alarm" ELSE "none"
    /\ UNCHANGED <<irqvars, pmvars>>

RttSetOverflowCb ==
    /\ Commit(rtt_set_overflow_cb(Cur, "ovf_cb", "ovf_arg"), 0)
    /\ act' = "rtt_set_overflow_cb"
    /\ ovfbal' = 0
    /\ StillAhead
    /\ behind' = FALSE
    /\ raised' = "none"
    /\ UNCHANGED <<cleared, irqvars, pmvars>>

RttClearOverflowCb ==
    /\ Commit(rtt_clear_overflow_cb(Cur), 0)
    /\ act' = "rtt_clear_overflow_cb"
    /\ ovfbal' = 0
    /\ StillAhead
    /\ behind' = FALSE
    /\ raised' = IF pending(Cur) /\ rtt_counter.overflow_cb # NULL /\ rtt_counter.alarm_set
                     /\ rtt_counter.alarm_active = 0
                  THEN "overflow" ELSE "none"
    /\ UNCHANGED <<cleared, irqvars, pmvars>>

RttSetCounter(value) ==
    /\ Commit(rtt_set_counter(Cur, value), 0)
    /\ act' = "rtt_set_counter"
    /\ Fresh(FALSE)
    /\ ovfbal' = 0
    /\ behind' = FALSE
    /\ raised' = "none"
    /\ UNCHANGED <<cleared, irqvars, pmvars>>

Next ==
    \/ Tick
    \/ Isr
    \/ \E v \in AlarmValues, p \in AlarmPairs : RttSetAlarm(v, p[1], p[2])
    \/ RttClearAlarm
    \/ RttSetOverflowCb
    \/ RttClearOverflowCb
    \/ \E value \in CounterValues : RttSetCounter(value)

Spec == Init /\ [][Next]_vars

(* rtt_set_alarm statement by statement, as the thread executes it with    *)
(* interrupts enabled: the function takes no lock and masks no interrupt,  *)
(* so the interrupt handler may run between any two of its statements.     *)
IrqPairs == {<<"cb1", "arg1">>, <<"cb2", "arg2">>}

IrqValues == {2, 5}

Quiet ==
    /\ UNCHANGED pmvars
    /\ Fresh(FALSE)
    /\ cleared' = FALSE
    /\ ovfbal' = 0
    /\ behind' = FALSE
    /\ raised' = "none"

SetAlarmValue(v, cb, arg) ==
    /\ pc = "idle"
    /\ Commit([Cur EXCEPT !.rc.alarm = v], 0)
    /\ pc' = "alarm_cb"
    /\ op' = [alarm |-> v, cb |-> cb, arg |-> arg]
    /\ act' = "rtt_set_alarm:alarm"
    /\ Quiet

SetAlarmCb ==
    /\ pc = "alarm_cb"
    /\ Commit([Cur EXCEPT !.rc.alarm_cb = op.cb], 0)
    /\ pc' = "alarm_arg"
    /\ act' = "rtt_set_alarm:alarm_cb"
    /\ Quiet
    /\ UNCHANGED op

SetAlarmArg ==
    /\ pc = "alarm_arg"
    /\ Commit([Cur EXCEPT !.rc.alarm_arg = op.arg], 0)
    /\ pc' = "update"
    /\ act' = "rtt_set_alarm:alarm_arg"
    /\ Quiet
    /\ UNCHANGED op

SetAlarmUpdate ==
    /\ pc = "update"
    /\ Commit(rtt_update_hw_alarm(Cur), 0)
    /\ pc' = "idle"
    /\ op' = NoOp
    /\ act' = "rtt_set_alarm"
    /\ Quiet

NextIrq ==
    \/ Tick
    \/ Isr
    \/ \E v \in IrqValues, p \in IrqPairs : SetAlarmValue(v, p[1], p[2])
    \/ SetAlarmCb
    \/ SetAlarmArg
    \/ SetAlarmUpdate

SpecIrq == Init /\ [][NextIrq]_vars

(* Sleep cycles: rtt_save_counter, the RTC counting on while the system    *)
(* sleeps or still runs, rtt_restore_counter(false).  The API is not       *)
(* called inside a cycle; the backend clock and its interrupt may run.     *)
MaxSleep == 4

MaxRtc == 6

PmValues == {5}

RttSaveCounter ==
    /\ ~incycle
    /\ Commit(rtt_save_counter(Cur), 0)
    /\ incycle' = TRUE
    /\ awake' = 0
    /\ presave' = rtt_get_counter(Cur)
    /\ pm' = NoHook
    /\ act' = "rtt_save_counter"
    /\ Fresh(FALSE) /\ cleared' = FALSE /\ ovfbal' = 0 /\ behind' = FALSE
    /\ raised' = "none"
    /\ UNCHANGED irqvars

RtcTick ==
    /\ incycle
    /\ u32(rtc - rtc_counter_saved) < MaxSleep
    /\ rtc < MaxRtc
    /\ Commit([Cur EXCEPT !.rtc = u32(@ + 1)], 0)
    /\ act' = "rtc"
    /\ UNCHANGED <<track, reached, nfired, early, cleared, ovfbal, behind, raised,
                   irqvars, pmvars>>

RttRestoreCounter(cali) ==
    /\ incycle
    /\ Commit(rtt_restore_counter(Cur, FALSE, cali), 0)
    /\ incycle' = FALSE
    /\ awake' = 0
    /\ presave' = 0
    /\ pm' = NoHook
    /\ act' = "rtt_restore_counter"
    /\ UNCHANGED <<track, reached, nfired, early, cleared, ovfbal, behind, raised,
                   irqvars>>

NextPm ==
    \/ Tick
    \/ Isr
    \/ ~incycle /\ \E v \in PmValues : RttSetAlarm(v, "cb1", "arg1")
    \/ RttSaveCounter
    \/ RtcTick
    \/ \E cali \in CaliValues : RttRestoreCounter(cali)

SpecPm == Init /\ [][NextPm]_vars

(* Interrupts taken as soon as they are raised: no API call and no tick of *)
(* the counter runs while an interrupt is pending.                         *)
NextPrompt == IF pending(Cur) THEN Isr ELSE Next

SpecPrompt == Init /\ [][NextPrompt]_vars

(* Alarms set from inside the interrupt: the application registers         *)
(* cb_rearm, which sets the next alarm when it is invoked, and reads the   *)
(* counter.                                                                *)
NestedValues == {0, 5}

RearmArgs == {"to2", "to9"}

NestedCounters == {W - 2}

RttGetCounter ==
    /\ LET s == [Cur EXCEPT !.ret = rtt_get_counter(Cur)]
       IN  Commit([s EXCEPT !.out = <<[kind |-> "return", cb |-> NULL, arg |-> NULL,
                                       alarm |-> 0, at |-> s.ret]>>], 0)
    /\ act' = "rtt_get_counter"
    /\ UNCHANGED <<track, reached, nfired, early, cleared, ovfbal, behind, raised,
                   irqvars, pmvars>>

NextNested ==
    \/ Tick
    \/ Isr
    \/ \E v \in NestedValues, a \in RearmArgs : RttSetAlarm(v, "cb_rearm", a)
    \/ RttSetOverflowCb
    \/ \E value \in NestedCounters : RttSetCounter(value)
    \/ RttGetCounter

SpecNested == Init /\ [][NextNested]_vars

(* The power management hooks as pm_set and pm_reboot call them: the sleep *)
(* from rtt_pm_sleep_enter to rtt_pm_sleep_exit, and the restart from      *)
(* pm_reboot to rtt_init.  The RTC counts on in between; the backend clock *)
(* may still make a tick before the system is down.  The wake-up cause is  *)
(* the timer only if rtt_pm_sleep_enter enabled the timer wake-up and the  *)
(* time it returned has passed on the RTC.  One sleep or one restart is    *)
(* followed, after any history of API calls, ticks and interrupts, up to   *)
(* the interrupt that is pending when the hook returns.                    *)
MaxHookRtc == 3

WakeCauses == {ESP_SLEEP_WAKEUP_TIMER, "gpio"}

HookValues == {5}

HookCounters == {W - 2}

Elapsed(cali) == rtc_clk_to_us(u32(rtc - rtc_counter_saved), cali)

Unobserved ==
    /\ Fresh(FALSE)
    /\ cleared' = FALSE
    /\ ovfbal' = 0
    /\ behind' = FALSE
    /\ raised' = "none"
    /\ UNCHANGED irqvars

BeforeHooks == pm.op = "none"

RttPmSleepEnter ==
    /\ BeforeHooks
    /\ LET s == rtt_pm_sleep_enter(Cur)
       IN  /\ Commit(s, 0)
           /\ pm' = [NoHook EXCEPT !.op = "rtt_pm_sleep_enter", !.ret = s.ret]
    /\ incycle' = TRUE
    /\ awake' = 0
    /\ presave' = rtt_get_counter(Cur)
    /\ act' = "rtt_pm_sleep_enter"
    /\ Unobserved

RtcCount ==
    /\ incycle
    /\ rtc < MaxHookRtc
    /\ Commit([Cur EXCEPT !.rtc = u32(@ + 1)], 0)
    /\ act' = "rtc"
    /\ UNCHANGED <<track, reached, nfired, early, cleared, ovfbal, behind, raised,
                   irqvars, pmvars>>

RttPmSleepExit(cause, cali) ==
    /\ incycle
    /\ pm.op = "rtt_pm_sleep_enter"
    /\ cause = ESP_SLEEP_WAKEUP_TIMER
           => (rtt_counter.wakeup /\ Elapsed(cali) >= pm.ret)
    /\ Commit(rtt_pm_sleep_exit(Cur, cause, cali), 0)
    /\ pm' = [op |-> "rtt_pm_sleep_exit", cause |-> cause, ret |-> pm.ret,
              us |-> Elapsed(cali), idle |-> (awake = 0)]
    /\ incycle' = FALSE
    /\ awake' = 0
    /\ act' = "rtt_pm_sleep_exit"
    /\ Unobserved
    /\ UNCHANGED presave

PmReboot ==
    /\ BeforeHooks
    /\ Commit(pm_reboot(Cur), 0)
    /\ pm' = [NoHook EXCEPT !.op = "pm_reboot"]
    /\ incycle' = TRUE
    /\ awake' = 0
    /\ presave' = rtt_get_counter(Cur)
    /\ act' = "pm_reboot"
    /\ Unobserved

(* The resets rtt_init is reached through.                                 *)
ResetOps == {"pm_reboot", ESP_PM_DEEP_SLEEP}

RttInit(cali) ==
    /\ incycle
    /\ pm.op \in ResetOps
    /\ Commit(rtt_init(Cur, cali), 0)
    /\ pm' = [NoHook EXCEPT !.op = "rtt_init", !.us = Elapsed(cali),
                            !.idle = (awake = 0)]
    /\ incycle' = FALSE
    /\ awake' = 0
    /\ act' = "rtt_init"
    /\ Unobserved
    /\ UNCHANGED presave

NextHooks ==
    \/ (BeforeHooks \/ incycle) /\ Tick
    \/ Isr
    \/ BeforeHooks /\ \E v \in HookValues : RttSetAlarm(v, "cb1", "arg1")
    \/ BeforeHooks /\ RttSetOverflowCb
    \/ BeforeHooks /\ \E value \in HookCounters : RttSetCounter(value)
    \/ RttPmSleepEnter
    \/ RtcCount
    \/ \E cause \in WakeCauses, cali \in CaliValues : RttPmSleepExit(cause, cali)
    \/ PmReboot
    \/ \E cali \in CaliValues : RttInit(cali)

SpecHooks == Init /\ [][NextHooks]_vars

(* _frc_save_counter statement by statement: critical_enter(), the read of *)
(* frc2.count, the read of RTC.COUNTER, critical_exit().  Both counters    *)
(* keep counting inside the critical section; the interrupt is not taken   *)
(* before critical_exit().  The restore is one step: it reads one counter  *)
(* and writes one register inside its critical section.                    *)
critical(p) == p = "save_rtc"

FrcSaveCount ==
    /\ backend = "frc"
    /\ pc = "idle"
    /\ ~incycle
    /\ Commit([Cur EXCEPT !.hwsv = frc2.count], 0)
    /\ pc' = "save_rtc"
    /\ incycle' = TRUE
    /\ awake' = 0
    /\ presave' = rtt_get_counter(Cur)
    /\ pm' = NoHook
    /\ act' = "rtt_save_counter:count"
    /\ Fresh(FALSE) /\ cleared' = FALSE /\ ovfbal' = 0 /\ behind' = FALSE
    /\ raised' = "none"
    /\ UNCHANGED op

FrcSaveRtc ==
    /\ pc = "save_rtc"
    /\ Commit([Cur EXCEPT !.rtcsv = rtc], 0)
    /\ pc' = "idle"
    /\ act' = "rtt_save_counter"
    /\ UNCHANGED <<track, reached, nfired, early, cleared, ovfbal, behind, raised,
                   op, pmvars>>

NextSave ==
    \/ Tick
    \/ ~critical(pc) /\ Isr
    \/ ~incycle /\ \E v \in PmValues : RttSetAlarm(v, "cb1", "arg1")
    \/ FrcSaveCount
    \/ FrcSaveRtc
    \/ RtcCount
    \/ ~critical(pc) /\ \E cali \in CaliValues : RttRestoreCounter(cali)

SpecSave == Init /\ [][NextSave]_vars

(* rtt_poweroff and rtt_poweron around a pending alarm: the application    *)
(* registers its events while the RTT is powered, powers it off, and       *)
(* powers it on again later.                                               *)
PowerValues == {5}

PoweredOn == pm.op # "rtt_poweroff"

RttPoweroff ==
    /\ PoweredOn
    /\ Commit(rtt_poweroff(Cur), 0)
    /\ pm' = [NoHook EXCEPT !.op = "rtt_poweroff"]
    /\ act' = "rtt_poweroff"
    /\ UNCHANGED <<track, reached, nfired, early, cleared, ovfbal, behind, raised,
                   irqvars, incycle, awake, presave>>

RttPoweron ==
    /\ ~PoweredOn
    /\ Commit(rtt_poweron(Cur), 0)
    /\ pm' = [NoHook EXCEPT !.op = "rtt_poweron"]
    /\ act' = "rtt_poweron"
    /\ UNCHANGED <<track, reached, nfired, early, cleared, ovfbal, behind, raised,
                   irqvars, incycle, awake, presave>>

NextPower ==
    \/ Tick
    \/ Isr
    \/ PoweredOn /\ \E v \in PowerValues : RttSetAlarm(v, "cb1", "arg1")
    \/ PoweredOn /\ RttSetOverflowCb
    \/ RttPoweroff
    \/ RttPoweron

SpecPower == Init /\ [][NextPower]_vars

(* The power controller: pm_set with each of its modes, any number of      *)
(* times, pm_reboot, and the boot after a reset.  pm.op holds the mode the *)
(* system sleeps in.  The application sets its alarm before the first      *)
(* sleep; time is followed up to there and inside the sleeps.              *)
PmModes == {ESP_PM_MODEM_SLEEP, ESP_PM_LIGHT_SLEEP, ESP_PM_DEEP_SLEEP}

PmAwake == pm.op \in {"none", "pm_set:wakeup", "rtt_init"}

PmSet(mode) ==
    /\ PmAwake
    /\ LET s == pm_set(Cur, mode)
       IN  /\ Commit(s, 0)
           /\ pm' = IF mode = ESP_PM_MODEM_SLEEP THEN pm
                    ELSE [NoHook EXCEPT !.op = mode, !.ret = s.ret]
    /\ incycle' = (mode # ESP_PM_MODEM_SLEEP)
    /\ awake' = 0
    /\ presave' = IF mode = ESP_PM_MODEM_SLEEP THEN presave ELSE rtt_get_counter(Cur)
    /\ act' = "pm_set"
    /\ Unobserved

PmSetWakeup(cause, cali) ==
    /\ incycle
    /\ pm.op = ESP_PM_LIGHT_SLEEP
    /\ cause = ESP_SLEEP_WAKEUP_TIMER
           => (rtt_counter.wakeup /\ Elapsed(cali) >= pm.ret)
    /\ Commit(pm_set_wakeup(Cur, cause, cali), 0)
    /\ pm' = [op |-> "pm_set:wakeup", cause |-> cause, ret |-> pm.ret,
              us |-> Elapsed(cali), idle |-> (awake = 0)]
    /\ incycle' = FALSE
    /\ awake' = 0
    /\ act' = "pm_set:wakeup"
    /\ Unobserved
    /\ UNCHANGED presave

NextPmSet ==
    \/ (BeforeHooks \/ incycle) /\ Tick
    \/ Isr
    \/ BeforeHooks /\ \E v \in HookValues : RttSetAlarm(v, "cb1", "arg1")
    \/ \E mode \in PmModes : PmSet(mode)
    \/ RtcCount
    \/ \E cause \in WakeCauses, cali \in CaliValues : PmSetWakeup(cause, cali)
    \/ PmReboot
    \/ \E cali \in CaliValues : RttInit(cali)

SpecPmSet == Init /\ [][NextPmSet]_vars

(* The two backends behind the interface of rtt_arch.h, driven side by     *)
(* side without the core: the same set_alarm(value, cb, arg) and           *)
(* clear_alarm calls reach both, and time passes for both, one microsecond *)
(* of system time a step and an FRC2 tick whenever the microsecond count   *)
(* crosses into the next FRC2 tick.  Every interrupt is dispatched before  *)
(* time moves on.                                                          *)
TwinValues == {0, 2, 5, 18, W - 1}

(* One FRC2 tick in whole microseconds, rounded up.                        *)
FrcTickUs == (USEC_PER_SEC + FRC_FREQUENCY - 1) \div FRC_FREQUENCY

AsFrc(s) == [s EXCEPT !.be = "frc"]

AsSys(s) == [s EXCEPT !.be = "sys"]

TwinQuiet == ~pending(AsFrc(Cur)) /\ ~pending(AsSys(Cur))

TwinStep(s, name) ==
    /\ Commit(s, 0)
    /\ act' = name
    /\ UNCHANGED <<track, reached, nfired, early, cleared, ovfbal, behind, raised,
                   irqvars, pmvars>>

TwinSetAlarm(v) ==
    /\ TwinQuiet
    /\ LET s1 == frc_set_alarm(Cur, v, "cb1", "arg1")
           s2 == sys_set_alarm(s1, v, "cb1", "arg1")
       IN  TwinStep([s2 EXCEPT !.tw = [v |-> v, c |-> sys_get_counter(Cur),
                                       set |-> TRUE, frc |-> 0, sys |-> 0,
                                       skew |-> 0]],
                    "set_alarm")

TwinClearAlarm ==
    /\ TwinQuiet
    /\ TwinStep([sys_clear_alarm(frc_clear_alarm(Cur)) EXCEPT !.tw = NoTwin],
                "clear_alarm")

TwinTick ==
    /\ TwinQuiet
    /\ twin.skew <= FrcTickUs
    /\ LET s1 == hw_tick(AsSys(Cur))
           s2 == IF FRC_US_TO_COUNTER(s1.time) # FRC_US_TO_COUNTER(sys_time)
                 THEN hw_tick(AsFrc(s1)) ELSE s1
       IN  TwinStep([s2 EXCEPT !.tw.skew = IF twin.frc # twin.sys THEN @ + 1 ELSE 0],
                    "tick")

TwinFrcIsr ==
    /\ pending(AsFrc(Cur))
    /\ LET s == hw_isr(AsFrc(Cur))
       IN  TwinStep([s EXCEPT !.tw.frc = Cap(@ + Count(s.out, "backend_cb"))],
                    "frc_isr")

TwinSysIsr ==
    /\ pending(AsSys(Cur))
    /\ LET s == hw_isr(AsSys(Cur))
       IN  TwinStep([s EXCEPT !.tw.sys = Cap(@ + Count(s.out, "backend_cb"))],
                    "sys_isr")

NextTwin ==
    \/ \E v \in TwinValues : TwinSetAlarm(v)
    \/ TwinClearAlarm
    \/ TwinTick
    \/ TwinFrcIsr
    \/ TwinSysIsr

SpecTwin == Init /\ [][NextTwin]_vars

(* ------------------------------- claims -------------------------------- *)

Invoked(kind) == Count(calls, kind) > 0

\* C1: after rtt_set_alarm(v, cb, arg) with v ahead of the counter, cb is
\* invoked at most once, and not before the counter has reached v.
C1_AlarmOnceNotBefore == track => (nfired <= 1 /\ ~early)

\* C2: after rtt_clear_alarm, and until the next rtt_set_alarm, the alarm
\* callback is never invoked, on either backend, whatever interrupt the
\* backend still delivers.
C2_ClearedNeverFires == cleared => ~Invoked("alarm")

C2_Witness ==
    /\ cleared
    /\ act = "isr"
    /\ \E i \in DOMAIN calls : calls[i].kind = "_frc_isr" /\ calls[i].alarm # 0

\* C3: with only an overflow callback registered, the callback is invoked
\* once per wrap of the counter: the number of invocations never runs ahead
\* of the number of wraps (by more than the one FRC tick the FRC2 backend
\* rounds down by) and never falls more than the pending one behind.
C3_OverflowOncePerWrap ==
    OvfOnly(Cur) => (ovfbal >= -1 /\ ovfbal <= (IF backend = "frc" THEN 1 ELSE 0))

\* C4: with an alarm ahead of the counter and an overflow callback both
\* registered, the alarm callback comes first, when the counter reaches v,
\* and the overflow callback still comes at the wrap that follows.
C4_AlarmThenOverflow ==
    (track /\ rtt_counter.overflow_cb # NULL)
        => /\ ~early
           /\ nfired <= 1
           /\ Invoked("overflow") => nfired >= 1
           /\ nfired >= 1 => ovfbal >= -1

\* C5: an alarm set at or behind the counter while an overflow callback is
\* registered stays registered with the overflow armed (alarm_active = 0),
\* and the dispatch of that overflow arms the alarm (alarm_active = v).
C5_BehindArmedAfterWrap ==
    /\ (behind /\ act = "rtt_set_alarm")
           => (rtt_counter.alarm_active = 0 /\ rtt_counter.alarm_set
               /\ rtt_counter.alarm_cb # NULL)
    /\ (behind /\ Invoked("overflow") /\ nfired = 0 /\ rtt_counter.alarm # 0)
           => rtt_counter.alarm_active = rtt_counter.alarm

\* C6 (as stated): after the alarm set with rtt_set_alarm(v, cb, arg) has
\* fired, rtt_get_alarm() still returns v.
C6_GetAlarmKeepsValue ==
    \A i \in DOMAIN calls :
        calls[i].kind = "alarm" => rtt_get_alarm(Cur) = calls[i].alarm

\* C6 (amended): the dispatch clears the alarm before it invokes cb, so
\* from the invocation of cb until the next API call rtt_get_alarm()
\* returns 0.
C6_GetAlarmZeroAfterFire == nfired >= 1 => rtt_get_alarm(Cur) = 0

C6_Witness ==
    /\ nfired >= 1
    /\ \E i \in DOMAIN calls : calls[i].kind = "alarm" /\ calls[i].alarm # 0
    /\ rtt_get_alarm(Cur) = 0

\* C7: immediately after rtt_set_alarm(v, cb, arg) returns, rtt_get_alarm()
\* returns v, whether the alarm or the overflow was armed and also when cb
\* is NULL.
C7_GetAlarmAfterSet ==
    [][\A v \in AlarmValues, p \in AlarmPairs :
          (act' = "rtt_set_alarm" /\ RttSetAlarm(v, p[1], p[2]))
              => rtt_get_alarm(Cur)' = v]_vars

C7_Witness ==
    /\ act = "rtt_set_alarm"
    /\ rtt_counter.alarm_cb # NULL
    /\ rtt_counter.alarm # 0
    /\ rtt_counter.alarm_active = 0
    /\ rtt_get_alarm(Cur) = rtt_counter.alarm

\* C8: every invocation of an alarm callback passes the arg of the
\* rtt_set_alarm call that registered that callback, also when the interrupt
\* is taken while a later rtt_set_alarm is partway through its writes.
C8_CallbackGetsItsArg ==
    \A i \in DOMAIN calls :
        calls[i].kind = "alarm" => <<calls[i].cb, calls[i].arg>> \in IrqPairs

\* C9: rtt_set_alarm (like the other operations on the shared state) runs
\* as a critical section: the interrupt handler never runs between its
\* first and its last write of the shared state.
C9_IsrOutsideOperations == act = "isr" => pc = "idle"

HalfPeriod == W \div 2

\* C10: with no rtt_set_counter, what rtt_get_counter() returns never goes
\* back modulo 2^32: from one call to the next, with interrupts, FRC
\* reloads and whole save/restore cycles in between, the counter moves
\* forward by less than half its period.
C10_CounterMonotonic ==
    [][/\ (~incycle /\ ~incycle')
            => u32(rtt_get_counter(Cur)' - rtt_get_counter(Cur)) < HalfPeriod
       /\ (incycle /\ ~incycle')
            => u32(rtt_get_counter(Cur)' - presave) < HalfPeriod]_vars

\* C11: after rtt_set_counter(value) and with no backend tick in between,
\* rtt_get_counter() returns value: in the state every rtt_set_counter call
\* of the run leaves, and for each value of the counter's width when the
\* call is made in any reachable state, whatever the offset was before.
C11_SetCounterThenGet ==
    /\ act = "rtt_set_counter" => rtt_get_counter(Cur) \in CounterValues
    /\ \A value \in 0 .. W - 1 :
           rtt_get_counter(rtt_set_counter(Cur, value)) = value

C11_Witness ==
    /\ act = "rtt_set_counter"
    /\ hw_get_counter(Cur) # 0
    /\ rtt_offset # 0
    /\ rtt_get_counter(Cur) = W - 2
    /\ rtt_get_counter(rtt_set_counter(Cur, 1)) = 1

WithinOneTick(a, b) == u32(a - b) \in {0, 1, W - 1}

\* C12: a sleep of no duration, rtt_save_counter() (in rtt_pm_sleep_enter)
\* followed at once by rtt_restore_counter(false) (in rtt_pm_sleep_exit)
\* with no RTC tick and no backend tick in between, leaves rtt_get_counter()
\* within one tick of its value before the save, on either backend.
C12_SleepRoundTrip ==
    (act = "rtt_pm_sleep_exit" /\ pm.idle /\ rtc = rtc_counter_saved)
        => WithinOneTick(rtt_get_counter(Cur), presave)

C12_Witness ==
    /\ act = "rtt_pm_sleep_exit"
    /\ pm.idle
    /\ rtc = rtc_counter_saved
    /\ backend = "frc"
    /\ hw_counter_saved # 0
    /\ rtt_offset # 0
    /\ rtt_get_counter(Cur) = presave

\* C13: rtt_save_counter(), the loss of all that is not retained, then
\* rtt_init(): rtt_get_counter() is not behind the value read just before
\* the save (it is ahead of it by less than half the counter's period,
\* the RTC time of the restart being far shorter than that).
C13_RebootNotBackward ==
    act = "rtt_init" => u32(rtt_get_counter(Cur) - presave) < HalfPeriod

\* C14: across a sleep during which the RTC advanced and the backend
\* counter itself did not, the virtual counter after the restore is the
\* virtual counter at the save plus the RTC time in microseconds, modulo
\* the counter's period, on either backend.
C14_RestoreAddsRtcTime ==
    (act = "rtt_pm_sleep_exit" /\ pm.idle)
        => rtt_get_counter(Cur) = u32(presave + pm.us)

(* The backend's counter in its own unit, and RTC microseconds in it.      *)
BackendCount(s) ==
    IF s.be = "frc" THEN s.f2.count % FRC_OVERFLOW ELSE u32(s.time + s.soff)

BackendUnits(s, us) ==
    IF s.be = "frc" THEN FRC_US_TO_COUNTER(us) ELSE us

BackendSum(s, x) == IF s.be = "frc" THEN u32(x) % FRC_OVERFLOW ELSE u32(x)

\* C15 (as stated): on either backend rtt_restore_counter(false), as
\* rtt_pm_sleep_exit calls it, adds the elapsed RTC time alone to the
\* backend's counter, and rtt_restore_counter(true), as rtt_init calls it,
\* adds the saved backend counter as well.
C15_InInitDistinction ==
    [][/\ act' = "rtt_pm_sleep_exit"
            => BackendCount(Cur)' =
                   BackendSum(Cur, BackendCount(Cur) + BackendUnits(Cur, pm'.us))
       /\ act' = "rtt_init"
            => BackendCount(Cur)' =
                   BackendSum(Cur, BackendCount(Cur) + BackendUnits(Cur, pm'.us)
                                   + hw_counter_saved)]_vars

\* C15 (amended): the distinction is the system-time backend's alone.  The
\* FRC2 backend ignores in_init: with either value it loads the saved
\* count plus the elapsed RTC time, whatever FRC2 counts at that moment.
C15_InInitOnSysOnly ==
    [][(act' \in {"rtt_pm_sleep_exit", "rtt_init"})
          => BackendCount(Cur)' =
                 IF backend = "frc"
                 THEN BackendSum(Cur, hw_counter_saved + BackendUnits(Cur, pm'.us))
                 ELSE BackendSum(Cur, BackendCount(Cur) + pm'.us
                          + (IF act' = "rtt_init" THEN hw_counter_saved ELSE 0))]_vars

C15_Witness ==
    /\ act = "rtt_pm_sleep_exit"
    /\ backend = "frc"
    /\ ~pm.idle
    /\ pm.us > 0
    /\ hw_counter_saved # 0
    /\ frc2.count = (hw_counter_saved + FRC_US_TO_COUNTER(pm.us)) % FRC_OVERFLOW

\* C16 (as stated): rtt_pm_sleep_enter saves the counters first; with no
\* event armed it returns 0 and leaves wakeup as it is; with an event armed
\* it sets wakeup and returns the distance to alarm_active in microseconds.
C16_SleepEnterWakeup ==
    [][act' = "rtt_pm_sleep_enter"
          => /\ rtc_counter_saved' = rtc
             /\ IF ~rtt_counter.alarm_set
                 THEN pm'.ret = 0 /\ rtt_counter'.wakeup = rtt_counter.wakeup
                 ELSE /\ rtt_counter'.wakeup
                      /\ pm'.ret = RTT_TICKS_TO_US(u32(rtt_counter.alarm_active
                                                       - rtt_get_counter(Cur)))]_vars

\* C16 (amended): with an event armed wakeup is set only if the distance
\* is not 0; an armed event at distance 0 clears wakeup, and 0 is returned.
C16_SleepEnterWakeupIfAhead ==
    [][act' = "rtt_pm_sleep_enter"
          => /\ rtc_counter_saved' = rtc
             /\ IF ~rtt_counter.alarm_set
                 THEN pm'.ret = 0 /\ rtt_counter'.wakeup = rtt_counter.wakeup
                 ELSE /\ rtt_counter'.wakeup = (pm'.ret # 0)
                      /\ pm'.ret = RTT_TICKS_TO_US(u32(rtt_counter.alarm_active
                                                       - rtt_get_counter(Cur)))]_vars

C16_Witness ==
    /\ act = "rtt_pm_sleep_enter"
    /\ rtt_counter.alarm_set
    /\ rtt_counter.alarm_active = presave
    /\ pm.ret = 0
    /\ ~rtt_counter.wakeup

\* C17: with an event armed, what rtt_pm_sleep_enter returns is alarm_active
\* minus the counter modulo the counter's period, unchecked: the time to
\* the wrap when the overflow is armed, and the period minus the lag when
\* the armed alarm is behind the counter.
C17_SleepDurationUnchecked ==
    (act = "rtt_pm_sleep_enter" /\ rtt_counter.alarm_set)
        => /\ pm.ret = u32(rtt_counter.alarm_active - presave)
           /\ rtt_counter.alarm_active = 0 => pm.ret = u32(W - presave)
           /\ (rtt_counter.alarm_active # 0 /\ rtt_counter.alarm_active < presave)
                  => pm.ret = W - (presave - rtt_counter.alarm_active)

C17_Witness ==
    /\ act = "rtt_pm_sleep_enter"
    /\ rtt_counter.alarm_set
    /\ rtt_counter.alarm_active # 0
    /\ rtt_counter.alarm_active < presave
    /\ pm.ret = W - (presave - rtt_counter.alarm_active)
    /\ pm.ret >= HalfPeriod

\* C18: rtt_pm_sleep_exit with the timer as the cause invokes the callback
\* of the pending event, the alarm's or the overflow's, before it returns,
\* and the backend interrupt taken next does not invoke that callback a
\* second time.
C18_WakeDispatchOnce ==
    [][/\ (act' = "rtt_pm_sleep_exit" /\ pm'.cause = ESP_SLEEP_WAKEUP_TIMER)
            => /\ (rtt_counter.alarm_active = rtt_counter.alarm
                      /\ rtt_counter.alarm_cb # NULL)
                     => Count(calls', "alarm") = 1
               /\ (rtt_counter.alarm_active = 0 /\ rtt_counter.overflow_cb # NULL)
                     => Count(calls', "overflow") = 1
       /\ (act = "rtt_pm_sleep_exit" /\ act' = "isr")
            => /\ Invoked("alarm") => Count(calls', "alarm") = 0
               /\ Invoked("overflow") => Count(calls', "overflow") = 0]_vars

\* C19: rtt_pm_sleep_exit with a cause other than the timer invokes no
\* callback and leaves the core's state, the offset and the backend's alarm
\* as they are: it changes the backend's time alone.
C19_OtherCauseNoDispatch ==
    [][(act' = "rtt_pm_sleep_exit" /\ pm'.cause # ESP_SLEEP_WAKEUP_TIMER)
          => /\ calls' = << >>
             /\ rtt_counter' = rtt_counter
             /\ rtt_offset' = rtt_offset
             /\ frc_alarm' = frc_alarm
             /\ frc2'.alarm = frc2.alarm
             /\ sys_timer' = sys_timer]_vars

C19_Witness ==
    /\ act = "rtt_pm_sleep_exit"
    /\ pm.cause = "gpio"
    /\ pm.us > 0
    /\ rtt_counter.alarm_cb # NULL
    /\ rtt_counter.alarm_active = rtt_counter.alarm
    /\ rtt_counter.wakeup
    /\ pm.us >= pm.ret

(* The core's state and the backend's alarm.                               *)
AlarmState(s) == <<s.rc, s.fa, s.f2.alarm, s.tm>>

\* C20: rtt_clear_alarm and rtt_clear_overflow_cb are idempotent: a second
\* call right after the first leaves the core's state and the backend's
\* alarm as the first left them, in the states the calls of the run leave
\* and when called in any reachable state, nothing registered included.
C20_ClearIdempotent ==
    /\ act = "rtt_clear_alarm"
           => AlarmState(rtt_clear_alarm(Cur)) = AlarmState(Cur)
    /\ act = "rtt_clear_overflow_cb"
           => AlarmState(rtt_clear_overflow_cb(Cur)) = AlarmState(Cur)
    /\ AlarmState(rtt_clear_alarm(rtt_clear_alarm(Cur)))
           = AlarmState(rtt_clear_alarm(Cur))
    /\ AlarmState(rtt_clear_overflow_cb(rtt_clear_overflow_cb(Cur)))
           = AlarmState(rtt_clear_overflow_cb(Cur))

C20_Witness ==
    /\ act = "rtt_clear_overflow_cb"
    /\ rtt_counter.alarm_cb # NULL
    /\ rtt_counter.alarm_set
    /\ rtt_counter.alarm_active = rtt_counter.alarm
    /\ AlarmState(rtt_clear_overflow_cb(Cur)) = AlarmState(Cur)
    /\ AlarmState(rtt_clear_alarm(rtt_clear_alarm(Cur)))
           = AlarmState(rtt_clear_alarm(Cur))

(* No alarm and no overflow callback is registered, in the core and in the *)
(* backend.                                                                *)
NothingRegistered(s) ==
    /\ s.rc.alarm_cb = NULL
    /\ s.rc.alarm_arg = NULL
    /\ s.rc.overflow_cb = NULL
    /\ s.rc.overflow_arg = NULL
    /\ rtt_get_alarm(s) = 0
    /\ ~s.rc.alarm_set
    /\ s.be = "frc" => s.fa.alarm_cb = NULL
    /\ s.be = "sys" => (s.tm.callback = NULL /\ ~s.tm.armed)

C27_CancelledNotInvoked ==
    /\ (raised = "alarm" /\ act = "isr") => ~Invoked("alarm")
    /\ (raised = "overflow" /\ act = "isr") => ~Invoked("overflow")

C27_Witness ==
    /\ raised = "overflow"
    /\ act = "isr"
    /\ backend = "frc"
    /\ Invoked("_frc_isr")
    /\ Invoked("_rtt_isr")
    /\ calls[1].at = 0
    /\ frc2.count = 0
    /\ ~Invoked("overflow")

ApiCalls == {"rtt_set_alarm", "rtt_clear_alarm", "rtt_set_overflow_cb",
             "rtt_clear_overflow_cb", "rtt_set_counter"}

(* The backend holds _rtt_isr for the virtual value v: the FRC2 backend    *)
(* keeps the raw value of v - _rtt_offset and has it in the alarm register *)
(* if it is ahead of the count, the overflow value otherwise; the          *)
(* system-time backend has the timer set for the distance to it.           *)
BackendArmedFor(s, v) ==
    LET hw == u32(v - s.off)
        raw == FRC_US_TO_COUNTER(hw) % FRC_OVERFLOW
    IN  IF s.be = "frc"
        THEN /\ s.fa.alarm_cb = RTT_ISR
             /\ s.fa.alarm_set = raw
             /\ s.fa.active = (IF raw > s.f2.count THEN raw ELSE 0)
             /\ s.f2.alarm = (IF raw > s.f2.count THEN raw ELSE FRC_OVERFLOW)
        ELSE /\ s.tm.callback = RTT_ISR
             /\ s.tm.armed
             /\ s.tm.left = SYS_COUNT_TO_US(u32(hw - sys_get_counter(s)))

BackendCleared(s) ==
    IF s.be = "frc" THEN s.fa.alarm_cb = NULL /\ s.fa.alarm_set = 0
                    ELSE s.tm.callback = NULL /\ ~s.tm.armed

AlarmIsNext(s) ==
    /\ s.rc.alarm_cb # NULL
    /\ s.rc.alarm > rtt_get_counter(s) \/ s.rc.overflow_cb = NULL

(* Ticks from the counter value c to the next time it equals v, and to its *)
(* next wrap.                                                              *)
TicksTo(c, v) == IF v > c THEN v - c ELSE v - c + W

TicksToWrap(c) == W - c

\* C23: when rtt_set_alarm, rtt_clear_alarm, rtt_set_overflow_cb,
\* rtt_clear_overflow_cb or rtt_set_counter returns: if an alarm callback
\* is registered and the alarm is above the counter or no overflow callback
\* is registered, alarm_set holds, alarm_active is the alarm and the backend
\* is armed for alarm - _rtt_offset; else if an overflow callback is
\* registered, alarm_set holds, alarm_active is 0 and the backend is armed
\* for 0 - _rtt_offset; else alarm_set is false and the backend's alarm is
\* cleared.  With both registered the armed event is the earlier one.
C23_NextEventSelected ==
    act \in ApiCalls =>
        LET s == Cur
            c == rtt_get_counter(s)
        IN  /\ AlarmIsNext(s)
                   => /\ s.rc.alarm_set
                      /\ s.rc.alarm_active = s.rc.alarm
                      /\ BackendArmedFor(s, s.rc.alarm)
            /\ (~AlarmIsNext(s) /\ s.rc.overflow_cb # NULL)
                   => /\ s.rc.alarm_set
                      /\ s.rc.alarm_active = 0
                      /\ BackendArmedFor(s, 0)
            /\ (~AlarmIsNext(s) /\ s.rc.overflow_cb = NULL)
                   => /\ ~s.rc.alarm_set
                      /\ BackendCleared(s)
            /\ (s.rc.alarm_cb # NULL /\ s.rc.overflow_cb # NULL)
                   => IF s.rc.alarm_active = s.rc.alarm /\ s.rc.alarm # 0
                      THEN TicksTo(c, s.rc.alarm) <= TicksToWrap(c)
                      ELSE TicksToWrap(c) <= TicksTo(c, s.rc.alarm)

C23_Witness ==
    /\ act = "rtt_set_counter"
    /\ rtt_counter.alarm_cb # NULL
    /\ rtt_counter.overflow_cb # NULL
    /\ rtt_counter.alarm = 5
    /\ rtt_counter.alarm_set
    /\ rtt_counter.alarm_active = 0
    /\ rtt_get_counter(Cur) > 5
    /\ BackendArmedFor(Cur, 0)

\* C24: whenever alarm_set holds, alarm_active = 0 stands for the armed
\* overflow and never for a user alarm at tick 0: after
\* rtt_set_alarm(0, cb, arg) it is not the user alarm that alarm_active = 0
\* stands for, and an interrupt taken with alarm_active = 0 does not run
\* the alarm callback.
C24_ZeroIsOverflowOnly ==
    /\ (rtt_counter.alarm_set /\ rtt_counter.alarm_active = 0)
           => ~(rtt_counter.alarm_cb # NULL /\ rtt_counter.alarm = 0
                /\ rtt_counter.overflow_cb = NULL)
    /\ \A i \in DOMAIN calls : calls[i].kind = "alarm" => calls[i].alarm # 0

\* C24, as the code has it: whenever alarm_set holds, alarm_active = 0
\* stands for the wrap of the counter, which is the armed overflow or the
\* user alarm registered at tick 0; an interrupt taken with
\* alarm_active = 0 runs the alarm callback only if the registered alarm
\* is 0.
C24_ZeroIsWrap ==
    [][/\ (rtt_counter'.alarm_set /\ rtt_counter'.alarm_active = 0)
           => \/ rtt_counter'.overflow_cb # NULL
              \/ rtt_counter'.alarm_cb # NULL /\ rtt_counter'.alarm = 0
       /\ (act' = "isr" /\ rtt_counter.alarm_active = 0 /\ Count(calls', "alarm") > 0)
           => rtt_counter.alarm = 0 /\ rtt_counter.alarm_cb # NULL
       /\ (act' = "isr" /\ rtt_counter.alarm_active = 0 /\ Count(calls', "_rtt_isr") > 0
            /\ rtt_counter.alarm = 0 /\ rtt_counter.alarm_cb # NULL)
           => Count(calls', "alarm") = 1]_vars

C24_Witness ==
    /\ act = "isr"
    /\ rtt_counter.overflow_cb = NULL
    /\ \E i \in DOMAIN calls :
           calls[i].kind = "alarm" /\ calls[i].alarm = 0 /\ calls[i].at = 0

\* C26: in one run of _rtt_isr in which the fired alarm_active equals the
\* registered alarm, an alarm callback is registered, and the fired value
\* is 0 with an overflow callback registered, both callbacks are invoked,
\* once each, the alarm callback before the overflow callback.
C26_AlarmBeforeOverflow ==
    [][(/\ act' = "isr"
        /\ Count(calls', "_rtt_isr") = 1
        /\ rtt_counter.alarm_active = rtt_counter.alarm
        /\ rtt_counter.alarm_cb # NULL
        /\ rtt_counter.alarm_active = 0
        /\ rtt_counter.overflow_cb # NULL)
       => /\ Count(calls', "alarm") = 1
          /\ Count(calls', "overflow") = 1
          /\ \E i, j \in DOMAIN calls' :
                 /\ i < j
                 /\ calls'[i].kind = "alarm"
                 /\ calls'[i].cb = rtt_counter.alarm_cb
                 /\ calls'[j].kind = "overflow"
                 /\ calls'[j].cb = rtt_counter.overflow_cb]_vars

C26_Witness ==
    /\ act = "isr"
    /\ Count(calls, "_rtt_isr") = 1
    /\ \E i, j \in DOMAIN calls :
           /\ i < j
           /\ calls[i].kind = "alarm" /\ calls[i].alarm = 0 /\ calls[i].cb = "cb1"
           /\ calls[j].kind = "overflow" /\ calls[j].alarm = 0

(* The FRC2 alarm register follows _frc_alarm.active.                      *)
AlarmRegisterFollows(s) ==
    s.f2.alarm = (IF s.fa.active # 0 THEN s.fa.active ELSE FRC_OVERFLOW)

\* C28: on the FRC2 backend the alarm register equals _frc_alarm.active
\* when that is not 0 and FRC_OVERFLOW when it is 0, after _frc_init, after
\* every _frc_set_alarm and after every _frc_isr; _frc_set_alarm makes
\* active the requested raw value only if a callback is given and the raw
\* value is strictly above the current raw count, and programs
\* FRC_OVERFLOW otherwise.
C28_FrcAlarmRegister ==
    backend = "frc" =>
        /\ AlarmRegisterFollows(Cur)
        /\ AlarmRegisterFollows(frc_init(Cur))
        /\ pending(Cur) => AlarmRegisterFollows(hw_isr(Cur))
        /\ \A us \in 0 .. W - 1, cb \in {RTT_ISR, NULL} :
               LET s == frc_set_alarm(Cur, us, cb, NULL)
                   raw == FRC_US_TO_COUNTER(us) % FRC_OVERFLOW
                   ahead == cb # NULL /\ raw > frc2.count
               IN  /\ AlarmRegisterFollows(s)
                   /\ s.fa.active = (IF ahead THEN raw ELSE 0)
                   /\ s.f2.alarm = (IF ahead THEN raw ELSE FRC_OVERFLOW)

C28_Witness ==
    /\ backend = "frc"
    /\ act = "rtt_set_alarm"
    /\ frc_alarm.alarm_cb # NULL
    /\ frc_alarm.alarm_set # 0
    /\ frc_alarm.alarm_set = frc2.count
    /\ frc_alarm.active = 0
    /\ frc2.alarm = FRC_OVERFLOW

\* C29: in _frc_isr, on the overflow event (active = 0) the count is
\* reloaded with the captured count modulo FRC_OVERFLOW; the registered
\* callback is invoked only if active equals the requested raw alarm value
\* and a callback is registered; the next alarm is then derived from the
\* count captured at entry, so that an alarm whose raw value was at or
\* behind the count when it was set is armed after the wrap, to fire when
\* the count reaches it.
C29_FrcIsrRearms ==
    [][(backend = "frc" /\ act' = "isr")
       => LET counter == frc2.count % FRC_OVERFLOW
          IN  /\ frc_alarm.active = 0 => frc2'.count = counter
              /\ Count(calls', "_rtt_isr") > 0
                     => /\ frc_alarm.active = frc_alarm.alarm_set
                        /\ frc_alarm.alarm_cb # NULL
              /\ frc_alarm'.active
                     = (IF frc_alarm'.alarm_cb # NULL /\ frc_alarm'.alarm_set > counter
                        THEN frc_alarm'.alarm_set ELSE 0)
              /\ (/\ frc_alarm.active = 0
                  /\ frc2.count >= FRC_OVERFLOW
                  /\ frc_alarm.alarm_cb # NULL
                  /\ frc_alarm.alarm_set # 0)
                     => /\ frc_alarm'.active = frc_alarm.alarm_set
                        /\ frc2'.alarm = frc_alarm.alarm_set]_vars

\* C22: rtt_get_counter() changes none of rtt_counter, _rtt_offset, the
\* backend's alarm state and the saved snapshots, and returns the backend's
\* get_counter() plus _rtt_offset modulo 2^32.
C22_GetCounterPure ==
    [][act' = "rtt_get_counter"
       => /\ UNCHANGED <<rtt_counter, rtt_offset, frc2, frc_alarm, sys_time,
                         sys_counter_offset, sys_timer, rtc, rtc_counter_saved,
                         hw_counter_saved>>
          /\ calls'[1].at = (IF backend = "frc"
                             THEN u32(FRC_COUNTER_TO_US(frc2.count) + rtt_offset)
                             ELSE u32(SYS_US_TO_COUNT(u32(sys_time + sys_counter_offset))
                                      + rtt_offset))]_vars

C22_Witness ==
    /\ act = "rtt_get_counter"
    /\ rtt_offset # 0
    /\ rtt_counter.alarm_set
    /\ pending(Cur)
    /\ calls[1].at = rtt_get_counter(Cur)
    /\ calls[1].at # hw_get_counter(Cur)

(* The backend holds _rtt_isr for the virtual value v: the FRC2 backend    *)
(* keeps the raw value of v - _rtt_offset and has it, or the overflow      *)
(* value, in the alarm register; the system-time backend has the timer set *)
(* for the distance to it.                                                 *)
BackendHolds(s, v) ==
    LET hw == u32(v - s.off)
        raw == FRC_US_TO_COUNTER(hw) % FRC_OVERFLOW
    IN  IF s.be = "frc"
        THEN /\ s.fa.alarm_cb = RTT_ISR
             /\ s.fa.alarm_set = raw
             /\ s.fa.active \in {raw, 0}
             /\ AlarmRegisterFollows(s)
        ELSE /\ s.tm.callback = RTT_ISR
             /\ s.tm.armed
             /\ s.tm.left = SYS_COUNT_TO_US(u32(hw - sys_get_counter(s)))

(* The Isr step ran cb_rearm, which asked for the alarm value v.           *)
Rearmed(v) ==
    /\ act = "isr"
    /\ \E i \in DOMAIN calls :
           /\ calls[i].kind = "alarm"
           /\ calls[i].cb = "cb_rearm"
           /\ RearmValue[calls[i].arg] = v

\* C25: when the alarm callback calls rtt_set_alarm(v2, cb2, arg2) from
\* inside the interrupt, the new alarm is still registered after the
\* interrupt handlers of the core and of the backend have returned
\* (alarm = v2, alarm_cb = cb2, alarm_arg = arg2), and the armed event is
\* the one the selection yields for it.
C25_RearmInsideIsr ==
    \A v \in {RearmValue[a] : a \in RearmArgs} :
        Rearmed(v) =>
            /\ rtt_counter.alarm = v
            /\ rtt_counter.alarm_cb = "cb2"
            /\ rtt_counter.alarm_arg = "arg2"
            /\ rtt_counter.alarm_set
            /\ IF AlarmIsNext(Cur)
               THEN rtt_counter.alarm_active = v /\ BackendHolds(Cur, v)
               ELSE rtt_counter.alarm_active = 0 /\ BackendHolds(Cur, 0)

C25_Witness ==
    /\ Rearmed(2)
    /\ backend = "frc"
    /\ rtt_counter.overflow_cb # NULL
    /\ rtt_counter.alarm = 2
    /\ rtt_counter.alarm_cb = "cb2"
    /\ rtt_counter.alarm_active = 0
    /\ rtt_get_counter(Cur) >= 2

(* What _frc_restore_counter loads: the saved raw count plus the raw ticks *)
(* of the RTC time elapsed since the save, as a uint32_t.                  *)
SavedPlusElapsed(s, cali) ==
    u32(s.hwsv + FRC_US_TO_COUNTER(rtc_clk_to_us(u32(s.rtc - s.rtcsv), cali)))

C36_AlarmSetIffRegistered ==
    pc = "idle"
    => (rtt_counter.alarm_set
        <=> (rtt_counter.alarm_cb # NULL \/ rtt_counter.overflow_cb # NULL))

(* rtt_clear_overflow_cb has removed the last registration: alarm_set has  *)
(* gone back to false while alarm_active still holds an earlier alarm.     *)
C36_Witness ==
    /\ act = "rtt_clear_overflow_cb"
    /\ rtt_counter.alarm_cb = NULL
    /\ rtt_counter.overflow_cb = NULL
    /\ ~rtt_counter.alarm_set
    /\ rtt_counter.alarm_active # 0

(* C39: rtt_set_counter(value) changes only _rtt_offset and the armed      *)
(* event (alarm_active, alarm_set and the backend's alarm): the alarm      *)
(* slot, the overflow slot, the wake-up flag and the backend's counter     *)
(* stay as they were and no callback is invoked; with an overflow callback *)
(* registered, a value at or beyond the pending alarm makes the overflow   *)
(* the armed event.                                                        *)
C39_SetCounterFrame ==
    [][act' = "rtt_set_counter"
       => /\ rtt_counter'.alarm = rtt_counter.alarm
          /\ rtt_counter'.alarm_cb = rtt_counter.alarm_cb
          /\ rtt_counter'.alarm_arg = rtt_counter.alarm_arg
          /\ rtt_counter'.overflow_cb = rtt_counter.overflow_cb
          /\ rtt_counter'.overflow_arg = rtt_counter.overflow_arg
          /\ rtt_counter'.wakeup = rtt_counter.wakeup
          /\ frc2'.count = frc2.count
          /\ frc2'.intr = frc2.intr
          /\ sys_time' = sys_time
          /\ sys_counter_offset' = sys_counter_offset
          /\ hw_get_counter(Cur)' = hw_get_counter(Cur)
          /\ calls' = << >>
          /\ (rtt_counter.alarm_cb # NULL /\ rtt_counter.overflow_cb # NULL
              /\ rtt_get_counter(Cur)' >= rtt_counter.alarm)
             => (rtt_counter'.alarm_set /\ rtt_counter'.alarm_active = 0)
          /\ (rtt_counter.alarm_cb # NULL
              /\ rtt_get_counter(Cur)' < rtt_counter.alarm)
             => (rtt_counter'.alarm_set
                 /\ rtt_counter'.alarm_active = rtt_counter.alarm)]_vars

(* The counter was moved beyond a pending alarm of value 5 with an         *)
(* overflow callback registered: the overflow is the armed event.          *)
C39_Witness ==
    /\ act = "rtt_set_counter"
    /\ rtt_counter.alarm_cb # NULL
    /\ rtt_counter.alarm = 5
    /\ rtt_counter.overflow_cb # NULL
    /\ rtt_get_counter(Cur) > 5
    /\ rtt_offset # 0
    /\ rtt_counter.alarm_set
    /\ rtt_counter.alarm_active = 0

(* The user callbacks a call chain invoked, and those among them that were *)
(* calls through a NULL pointer.                                           *)
UserCalls(seq) == {i \in DOMAIN seq : seq[i].kind \in {"alarm", "overflow"}}

NullCalls(seq) == {i \in UserCalls(seq) : seq[i].cb = NULL}

NoCallback(s) == s.rc.alarm_cb = NULL /\ s.rc.overflow_cb = NULL

(* C37: no dispatch path calls a NULL callback, and while neither an alarm *)
(* nor an overflow callback is registered no user callback is invoked,     *)
(* whatever alarm_active still holds: not by a backend interrupt taken in  *)
(* this state (spurious, or FRC2's overflow), not by _rtt_isr entered      *)
(* directly, and not by rtt_pm_sleep_exit with the timer cause.            *)
C37_NoNullNoStrayCallback ==
    /\ NullCalls(calls) = {}
    /\ NullCalls(hw_isr(Cur).out) = {}
    /\ NullCalls(rtt_isr(Cur).out) = {}
    /\ \A cali \in CaliValues :
           NullCalls(rtt_pm_sleep_exit(Cur, ESP_SLEEP_WAKEUP_TIMER, cali).out) = {}
    /\ sys_timer.armed => sys_timer.callback # NULL
    /\ NoCallback(Cur)
       => /\ UserCalls(hw_isr(Cur).out) = {}
          /\ UserCalls(rtt_isr(Cur).out) = {}
          /\ \A cali \in CaliValues :
                 UserCalls(rtt_pm_sleep_exit(Cur, ESP_SLEEP_WAKEUP_TIMER,
                                             cali).out) = {}

(* FRC2's overflow interrupt was handled with nothing registered and       *)
(* alarm_active still holding the value of an alarm long cleared.          *)
C37_Witness ==
    /\ act = "isr"
    /\ backend = "frc"
    /\ NoCallback(Cur)
    /\ rtt_counter.alarm_active # 0
    /\ Count(calls, "_frc_isr") = 1
    /\ UserCalls(calls) = {}

(* C34: the wake-up flag becomes true only in rtt_pm_sleep_enter, and only *)
(* when that found an event armed at a distance other than 0; it is true   *)
(* only from then to the next execution of _rtt_isr; every step that ran   *)
(* _rtt_isr leaves it false; rtt_pm_sleep_exit with another cause than the *)
(* timer leaves it as it was, and a flag that goes back to false does so   *)
(* in a step that ran _rtt_isr.                                            *)
C34_WakeupFlag ==
    [][/\ (~rtt_counter.wakeup /\ rtt_counter'.wakeup)
          => (act' = "rtt_pm_sleep_enter" /\ rtt_counter.alarm_set
              /\ pm'.ret # 0)
       /\ rtt_counter'.wakeup
          => (/\ pm'.op \in {"rtt_pm_sleep_enter", "rtt_pm_sleep_exit"}
              /\ pm'.ret # 0
              /\ pm'.op = "rtt_pm_sleep_exit"
                 => pm'.cause # ESP_SLEEP_WAKEUP_TIMER)
       /\ Count(calls', "_rtt_isr") > 0 => ~rtt_counter'.wakeup
       /\ (act' = "rtt_pm_sleep_exit" /\ pm'.cause # ESP_SLEEP_WAKEUP_TIMER)
          => rtt_counter'.wakeup = rtt_counter.wakeup
       /\ (rtt_counter.wakeup /\ ~rtt_counter'.wakeup)
          => Count(calls', "_rtt_isr") > 0]_vars

(* The sleep ended for another cause than the timer and the flag set by    *)
(* rtt_pm_sleep_enter is still true.                                       *)
C34_Witness ==
    /\ act = "rtt_pm_sleep_exit"
    /\ pm.cause = "gpio"
    /\ pm.ret # 0
    /\ rtt_counter.wakeup
    /\ rtt_counter.alarm_set

(* The value the core has armed the backend for.                           *)
ArmedTarget == u32(rtt_counter.alarm_active - rtt_offset)

(* C31, system-time backend: _sys_set_alarm(alarm, cb, arg) leaves a       *)
(* one-shot timer with that callback and argument whose distance is the    *)
(* number of microseconds after which the backend counter equals alarm,    *)
(* counted modulo the counter width, so a target behind the counter is a   *)
(* wrap away and not due at once; while the timer is armed its remaining   *)
(* distance keeps leading to the target; _sys_clear_alarm in any state,    *)
(* timer pending, never set or already fired, leaves no timer and no       *)
(* callback, so that no interrupt is pending and a second call changes     *)
(* nothing; and the callback is only ever invoked by a timer that was      *)
(* armed with it and had run down.                                         *)
C31_SysAlarmTimer ==
    /\ [](backend = "sys"
          => /\ \A alarm \in 0..(W - 1) :
                    LET s == sys_set_alarm(Cur, alarm, RTT_ISR, "arg")
                    IN  /\ s.tm.armed
                        /\ s.tm.callback = RTT_ISR
                        /\ s.tm.arg = "arg"
                        /\ s.tm.left \in 0..(W - 1)
                        /\ u32(sys_get_counter(Cur) + s.tm.left) = alarm
                        /\ alarm < sys_get_counter(Cur) => s.tm.left > 0
             /\ (sys_timer.armed /\ (sys_timer.left > 0 \/ act \in ApiCalls))
                => u32(sys_get_counter(Cur) + sys_timer.left) = ArmedTarget
             /\ LET s == sys_clear_alarm(Cur)
                IN  /\ ~s.tm.armed
                    /\ s.tm.callback = NULL
                    /\ ~pending(s)
                    /\ hw_isr(s).out = << >>
                    /\ sys_clear_alarm(s) = s)
    /\ [][(backend = "sys" /\ Count(calls', "_rtt_isr") > 0)
          => (act' = "isr" /\ sys_timer.armed /\ sys_timer.left = 0
              /\ sys_timer.callback = RTT_ISR)]_vars

(* An alarm was set behind the counter with no overflow callback: the      *)
(* timer is armed a wrap minus the lag away.                               *)
C31_Witness ==
    /\ backend = "sys"
    /\ act = "rtt_set_alarm"
    /\ rtt_counter.alarm_cb # NULL
    /\ rtt_counter.alarm_active = rtt_counter.alarm
    /\ ArmedTarget < sys_get_counter(Cur)
    /\ sys_timer.armed
    /\ sys_timer.callback = RTT_ISR
    /\ sys_timer.left = W - (sys_get_counter(Cur) - ArmedTarget)

(* C38: the alarm slot is one-shot and the overflow slot persistent.  The  *)
(* alarm callback finds alarm = 0, alarm_cb = alarm_arg = NULL and the     *)
(* armed event selected anew (the overflow if its callback is registered,  *)
(* nothing otherwise); the overflow callback finds itself still            *)
(* registered and the next event armed (the alarm if one is registered     *)
(* ahead of the counter, the overflow otherwise); and after an interrupt   *)
(* that invoked the overflow callback the overflow slot is as it was and   *)
(* an event is armed.                                                      *)
C38_OneShotAndPersistent ==
    /\ \A i \in DOMAIN calls :
           /\ calls[i].kind = "alarm"
              => /\ calls[i].rc.alarm = 0
                 /\ calls[i].rc.alarm_cb = NULL
                 /\ calls[i].rc.alarm_arg = NULL
                 /\ calls[i].rc.alarm_set = (calls[i].rc.overflow_cb # NULL)
                 /\ calls[i].rc.alarm_set => calls[i].rc.alarm_active = 0
           /\ calls[i].kind = "overflow"
              => /\ calls[i].rc.overflow_cb = calls[i].cb
                 /\ calls[i].rc.overflow_arg = calls[i].arg
                 /\ calls[i].rc.alarm_set
                 /\ calls[i].rc.alarm_active
                        = IF calls[i].rc.alarm_cb # NULL
                             /\ calls[i].rc.alarm > calls[i].at
                          THEN calls[i].rc.alarm ELSE 0
    /\ \A i \in DOMAIN calls :
           (act = "isr" /\ calls[i].kind = "overflow")
           => /\ rtt_counter.overflow_cb = calls[i].cb
              /\ rtt_counter.overflow_arg = calls[i].arg
              /\ rtt_counter.alarm_set

(* One interrupt at the wrap ran the alarm callback of an alarm at 0 and   *)
(* then the overflow callback, which stays registered.                     *)
C38_Witness ==
    /\ act = "isr"
    /\ Count(calls, "alarm") = 1
    /\ Count(calls, "overflow") = 1
    /\ rtt_counter.alarm_cb = NULL
    /\ rtt_counter.overflow_cb = "ovf_cb"
    /\ rtt_counter.alarm_set
    /\ rtt_counter.alarm_active = 0

C40_AlarmSurvivesPowerCycle ==
    (act = "rtt_poweron" /\ rtt_counter.alarm_cb # NULL /\ rtt_counter.alarm_set)
    => /\ BackendHolds(Cur, rtt_counter.alarm_active)
       /\ backend = "frc" => (frc2.enable /\ frc2.ien)

C32_SameContract ==
    /\ twin.skew <= FrcTickUs
    /\ \A i \in DOMAIN calls :
           (calls[i].kind = "backend_cb" /\ twin.set)
           => u32(twin.v - calls[i].at) < FrcTickUs

=============================================================================
